---- MODULE Spec2Model ----
(***************************************************************************)
(* BlendXChess: a model of the search coordinator (MultiSearcher), of the  *)
(* shared transposition table and of the position's make/unmake code.      *)
(*                                                                         *)
(* Three specifications share this module:                                 *)
(*   Spec     the coordinator: one caller thread, the main search thread   *)
(*            and its helper threads (src/engine/search.cpp, search.h)     *)
(*   SpecTT   the transposition table (src/engine/transtable.{h,cpp})      *)
(*   SpecPos  Position::doMove / undoMove (src/position.cpp,               *)
(*            src/engine/position.h)                                       *)
(***************************************************************************)
EXTENDS Integers, Sequences, FiniteSets, TLC

(***************************************************************************)
(* Bounds of the model.                                                    *)
(***************************************************************************)
\* number of TranspositionTable::store calls in one behaviour
MaxStores == 4
\* number of incrementAge calls in one behaviour of the table
MaxAgeSteps == 1
\* largest depth handed to store
MaxStoreDepth == 2
\* number of keys tried that fall into one bucket
SameBucketKeys == 4
\* perft is called with depths that end at most this many moves into the game
MaxPerftDepth == 3
\* number of perft calls made in a game
MaxPerftCalls == 1
\* number of root moves that a thread's move manager hands out
MaxRootMoves == 3
\* number of Engine::UndoMove calls in a game
MaxGameUndos == 1
\* number of moves of a game up to which a search begins and moves are made
\* during it
MaxBusyPlies == 2
\* number of moves of a game up to which it is reset
MaxResetPlies == 1
\* number of moves of a game up to which a call is given a move that is
\* not legal
MaxRefusedPlies == 4
\* largest number of moves added to a MoveList
MaxMoves == 4
\* largest score of a move of a MoveList
MaxMoveScore == 2
\* number of moves a line may go on after leaving the lines played
MaxFree == 1
\* number of undoMove calls in one behaviour of the position
MaxUndos == 2
\* largest options.threadCount tried (main thread + helpers)
MaxThreads == 2
\* largest options.depth tried
MaxDepth == 2
\* number of successful startSearch calls in one behaviour
MaxSearches == 2

(***************************************************************************)
(* Program constants.                                                      *)
(***************************************************************************)
SEARCH_DEPTH_MAX == 60
\* std::numeric_limits<int16_t>::max(), the age at which incrementAge clears
AGE_MAX == 32767
TTBUCKET_ENTRIES == 3
\* enum Bound
\* enum Score, basic_types.h line 106
SCORE_ZERO == 0
SCORE_LOSE == -30000
SCORE_WIN == 30000

BOUND_LOWER == 1
BOUND_UPPER == 2
BOUND_EXACT == 3
\* enum Side
WHITE == 0
BLACK == 1
NULL_COLOR == 2
\* enum PieceType; PT_ALL shares the value of PT_NULL
PT_NULL == 0
PT_ALL == 0
PAWN == 1
KNIGHT == 2
BISHOP == 3
ROOK == 4
QUEEN == 5
KING == 6
PIECE_NULL == 0
\* enum CastlingRight
CR_WHITE_OO == 1
CR_WHITE_OOO == 2
CR_BLACK_OO == 4
CR_BLACK_OOO == 8
\* enum CastlingSide
OO == 0
OOO == 1
\* Sq::NONE, the value after H8
SQ_NONE == 64
SQUARE_CNT == 64
FILE_CNT == 8
\* enum Sq, the directions
D_LEFT == -1
D_RIGHT == 1
D_UP == FILE_CNT
D_DOWN == -FILE_CNT
D_LU == D_LEFT + D_UP
D_RU == D_RIGHT + D_UP
D_LD == D_LEFT + D_DOWN
D_RD == D_RIGHT + D_DOWN

VARIABLES
    \* ---- MultiSearcher / SharedInfo (src/engine/search.h) ----
    options,          \* SearchOptions: [threadCount, depth]
    inSearch,         \* std::atomic_bool MultiSearcher::inSearch
    stopSearch,       \* shared.stopSearch
    externalStop,     \* shared.externalStop
    timeout,          \* shared.timeout
    stopCause,        \* shared.stopCause
    lastSearchReturn, \* MultiSearcher::lastSearchReturn
    searchPos,        \* MultiSearcher::pos, the position handed to startSearch
    results,          \* threads[t].results
    handle,           \* threads[t].handle.joinable()
    pc,               \* where each search thread stands
    curDepth,         \* idSearch's loop variable, per thread
    bestIt,           \* endSearch's local bestThreadIt in the main thread's call
    intRet,           \* what the main thread's own endSearch call returned
    \* ---- the caller (user-interface) thread ----
    extPc,            \* where the caller stands inside startSearch / endSearch
    extRet,           \* what its last endSearch call returned
    \* ---- the event processer and bookkeeping of the run ----
    events,           \* events handed to shared.processer by the current search
    searchNo,         \* number of searches started so far
    ageIncs,          \* incrementAge calls made for the current search
    extCalled,        \* the caller entered endSearch since the search began
    extSawSearch,     \* ... and that call found inSearch set
    extWroteFirst,    \* externalStop was written before the main thread tested it
    endedResult,      \* result of the search whose inSearch was cleared last
    lastEnd,          \* which endSearch call returned last for this search
    completed,        \* iterations thread 0 passed without seeing stopSearch
    \* ---- TranspositionTable (src/engine/transtable.h) ----
    table,            \* TTBucket table[...]
    age,              \* TranspositionTable::age
    \* ---- bookkeeping of the table's own specification ----
    lastStore,        \* per bucket: the last store call made into it
    probed,           \* the last probe call: its key, its result, the store before it
    storeNo,          \* number of store calls made
    ageSteps,         \* number of incrementAge calls made
    \* ---- Position (src/engine/position.h) and the moves made on it ----
    pos,              \* the Position object
    line,             \* the moves done and not yet undone, oldest first
    snaps,            \* the position as it was before each move of the line
    lastUndo,         \* the last undoMove call, until the next doMove: the
                      \* move, whether its doMove call was the call before,
                      \* the piece taken, the position before its doMove call
    undos,            \* number of undoMove calls made
    \* ---- MoveManager (src/engine/move_manager.cpp) ----
    ttMove,           \* MoveManager::ttMove, a move found in the table
    ttTried,          \* the last isPseudoLegal(ttMove) call and its result
    \* ---- Engine::perft (src/engine/engine.cpp) ----
    perftRet,         \* the last perft call: its depth, the number of moves
                      \* made before it, what it returned, the position after
    perftCalls,       \* number of perft calls made
    \* ---- MoveList (src/engine/movelist.h, src/movelist.h) ----
    mlSource,         \* which movelist.cpp the list's code is built from
    mlMoves,          \* MoveList::moves[0 .. moveCnt - 1], as a sequence
    mlIdx,            \* MoveList::moveIdx
    mlGot,            \* the last getNextBest call: moveIdx and the entries from
                      \* moveIdx on before it, and what it returned
    mlOut,            \* the moves that the getNextBest calls returned, in order
    \* ---- the root move loop of Searcher::idSearch (src/engine/search.cpp) ----
    rootSearchStates, \* shared->rootSearchStates[ID]: [depth, move]
    rootLoop,         \* per thread: where it stands in the loop, curDepth, move,
                      \* firstMove, and its move manager (moves handed out,
                      \* deferredList, moves of it handed out, state DEFERRED)
    \* ---- Engine (src/engine/engine.h), its position being pos ----
    gameState,        \* Engine::gameState
    drawCause,        \* Engine::drawCause
    gameHistory,      \* Engine::gameHistory, the moves of its records
    positionRepeats,  \* Engine::positionRepeats, reduced FEN -> count
    engineInSearch,   \* Engine::inSearch
    gameCall,         \* the last call made to the engine: the operation, its
                      \* argument, inSearch at the call, the state before it,
                      \* what it returned
    gameVia,          \* how the moves of the game were entered
    gameUndos,        \* number of UndoMove calls made since reset
    \* ---- the aspiration loop of Searcher::idSearch (src/engine/search.cpp) ----
    aspiration,       \* per thread: the locals delta, alpha and beta
    \* ---- the UCI front-end (src/UCI/uci_main.cpp) ----
    ioMutex,          \* who holds ioMutex: "free" or "loop", the command loop
    uciPc,            \* where the command loop stands
    uciCmd,           \* the command it is handling
    \* ---- one search thread inside idSearch and pvs (src/engine/search.cpp) ----
    idFrame,          \* the locals of idSearch and where it stands
    pvsStack,         \* the pvs invocations on the call stack, outermost first
    pvsRet,           \* the value the last invocation returned, not yet read
    threadResults,    \* threadLocal->results: resDepth, bestMove, score
    returned,         \* what the searches made so far returned, in order
    storeLog,         \* the stores made into the table by pvs
    \* ---- a search thread reading a table entry while another stores ----
    ttReader,         \* Searcher::pvs lines 531-545: where it stands, the
                      \* key probed, the entry pointed to, the members read
    ttStores,         \* the store calls made, in order: key, depth, bound
    \* ---- one MoveManager across its next() calls (move_manager.cpp) ----
    moveManager,      \* ROOT, state, ttMove, moveList, deferredList, the
                      \* moves returned so far
    \* ---- Searcher::quiescentSearch (src/engine/search.cpp) ----
    qsCall,           \* the last call: the node, alpha, beta, searchPly and
                      \* what it returned
    \* ---- killer moves (Searcher::killers, Engine::killers) ----
    killers,          \* impl: whose table it is; list: the killers of a ply
    killCall,         \* the last updateKillers call: ply, move, list before
    \* ---- Searcher::searchPly along one line of the search tree ----
    plySearch,        \* depth: idSearch's argument, curDepth, searchPly
    plyAccess,        \* the elements of prevMoves and killers that the last
                      \* step read or wrote
    \* ---- MultiSearcher's options and their setters (src/engine/search.h) ----
    multiSearcher,    \* options (timeLimit, threadCount, depth), the size of
                      \* threads, processer, inSearch
    optCall           \* the last setter call: what was asked, the searcher
                      \* before it, what it threw

searchVars ==
    <<options, inSearch, stopSearch, externalStop, timeout, stopCause,
      lastSearchReturn, searchPos, results, handle, pc, curDepth, bestIt,
      intRet, extPc, extRet, events, searchNo, ageIncs, extCalled,
      extSawSearch, extWroteFirst, endedResult, lastEnd, completed>>

ttVars == <<table, age>>

ttAux == <<lastStore, probed, storeNo, ageSteps>>

\* what the coordinator's steps leave alone besides the table
posVars == <<pos, line, snaps, lastUndo, undos>>

mmVars == <<ttMove, ttTried>>

\* what the steps of the table and of the position leave alone as well
perftVars == <<perftRet, perftCalls>>

mlVars == <<mlSource, mlMoves, mlIdx, mlGot, mlOut>>

rootVars == <<rootSearchStates, rootLoop>>

gameVars == <<gameState, drawCause, gameHistory, positionRepeats,
              engineInSearch, gameCall, gameVia, gameUndos>>

aspVars == <<aspiration>>

uciVars == <<ioMutex, uciPc, uciCmd>>

pvsVars == <<idFrame, pvsStack, pvsRet, threadResults, returned, storeLog>>

raceVars == <<ttReader, ttStores>>

\* the variables of the objects modelled after the search thread
mgrVars == <<moveManager>>

qsVars == <<qsCall>>

killVars == <<killers, killCall>>

plyVars == <<plySearch, plyAccess>>

optVars == <<multiSearcher, optCall>>

lateVars == <<raceVars, mgrVars, qsVars, killVars, plyVars, optVars>>

\* what the command loop leaves alone besides the coordinator and the table
beforeUci ==
    <<ttAux, posVars, mmVars, perftVars, mlVars, rootVars, gameVars, aspVars,
      pvsVars, lateVars>>

\* what a search thread inside idSearch and pvs leaves alone
beforePvs ==
    <<options, inSearch, stopCause, lastSearchReturn, searchPos, results,
      handle, pc, curDepth, bestIt, intRet, extPc, extRet, events, searchNo,
      ageIncs, extCalled, extSawSearch, extWroteFirst, endedResult, lastEnd,
      completed, ttAux, posVars, mmVars, perftVars, mlVars, rootVars, gameVars,
      aspVars, uciVars, lateVars>>

\* the variables of the objects modelled after the root move loop
afterRoot == <<gameVars, aspVars, uciVars, pvsVars, lateVars>>

\* what the aspiration loop leaves alone besides the coordinator and the table
beforeAsp ==
    <<ttAux, posVars, mmVars, perftVars, mlVars, rootVars, gameVars, uciVars,
      pvsVars, lateVars>>

\* the variables of the objects modelled after the move list
afterML == <<rootVars, afterRoot>>

\* the variables of the objects modelled after Engine::perft
afterPerft == <<mlVars, afterML>>

\* the variables of the objects modelled after the move manager
afterMM == <<perftVars, afterPerft>>

restVars == <<mmVars, afterMM>>

otherVars == <<ttAux, posVars, restVars>>

vars == <<searchVars, ttVars, otherVars>>

(***************************************************************************)
(* Transposition table: entries, clear and incrementAge.                   *)
(***************************************************************************)
\* number of index bits of the modelled table (TT_INDEX_BITS is 21)
ModelIndexBits == 1

BucketCount == 2 ^ ModelIndexBits

\* a zeroed TTEntry (depth == 0 means empty)
EmptyEntry ==
    [key |-> 0, depth |-> 0, bound |-> 0, score |-> 0, age |-> 0, move |-> 0]

EmptyBucket == [i \in 1..TTBUCKET_ENTRIES |-> EmptyEntry]

\* TranspositionTable::clear: memset(table, 0), age = 0
ClearedTable == [b \in 0..(BucketCount - 1) |-> EmptyBucket]

\* TranspositionTable::incrementAge: the pair <<table, age>> after the call
incrementAge(tbl, a) ==
    IF a = AGE_MAX THEN <<ClearedTable, 0>> ELSE <<tbl, a + 1>>

\* the TTEntry that TTEntry::store(k, d, b, s, m, a) leaves behind
Entry(k, d, b, s, m, a) ==
    [key |-> k, depth |-> d, bound |-> b, score |-> s, age |-> a, move |-> m]

\* table index of a key: key & TT_INDEX_MASK
bucketOf(key) == key % BucketCount

\* TTBucket::store with the depth test of the key match made strict (shows
\* what C8 owes to the test depth >= entries[i].depth)
RECURSIVE storeLoop_strict(_, _, _, _)
storeLoop_strict(bk, e, i, replace) ==
    IF i > TTBUCKET_ENTRIES
      THEN IF \/ bk[replace].age < e.age
              \/ /\ bk[replace].age = e.age
                 /\ \/ bk[replace].depth < e.depth
                    \/ bk[replace].depth = e.depth /\ e.bound = BOUND_EXACT
             THEN [bk EXCEPT ![replace] = e]
             ELSE bk
      ELSE IF bk[i].depth = 0
             THEN [bk EXCEPT ![i] = e]
             ELSE IF bk[i].key = e.key
                    THEN IF e.depth > bk[i].depth
                           THEN [bk EXCEPT ![i] = e]
                           ELSE bk
                    ELSE storeLoop_strict(bk, e, i + 1,
                           IF \/ bk[i].age < bk[replace].age
                              \/ /\ bk[i].age = bk[replace].age
                                 /\ bk[i].depth < bk[replace].depth
                             THEN i
                             ELSE replace)

\* TTBucket::store with the replacement candidate chosen, among the entries
\* of least age, by the greatest depth (shows what C30 owes to the test
\* entries[i].depth < replace->depth)
RECURSIVE storeLoop_deepest(_, _, _, _)
storeLoop_deepest(bk, e, i, replace) ==
    IF i > TTBUCKET_ENTRIES
      THEN IF \/ bk[replace].age < e.age
              \/ /\ bk[replace].age = e.age
                 /\ \/ bk[replace].depth < e.depth
                    \/ bk[replace].depth = e.depth /\ e.bound = BOUND_EXACT
             THEN [bk EXCEPT ![replace] = e]
             ELSE bk
      ELSE IF bk[i].depth = 0
             THEN [bk EXCEPT ![i] = e]
             ELSE IF bk[i].key = e.key
                    THEN IF e.depth >= bk[i].depth
                           THEN [bk EXCEPT ![i] = e]
                           ELSE bk
                    ELSE storeLoop_deepest(bk, e, i + 1,
                           IF \/ bk[i].age < bk[replace].age
                              \/ /\ bk[i].age = bk[replace].age
                                 /\ bk[i].depth > bk[replace].depth
                             THEN i
                             ELSE replace)

\* TTBucket::store without the key test of line 28 (shows what C31 owes to
\* the test: an incoming key is compared with every entry before the first
\* empty one)
RECURSIVE storeLoop_noKeyTest(_, _, _, _)
storeLoop_noKeyTest(bk, e, i, replace) ==
    IF i > TTBUCKET_ENTRIES
      THEN IF \/ bk[replace].age < e.age
              \/ /\ bk[replace].age = e.age
                 /\ \/ bk[replace].depth < e.depth
                    \/ bk[replace].depth = e.depth /\ e.bound = BOUND_EXACT
             THEN [bk EXCEPT ![replace] = e]
             ELSE bk
      ELSE IF bk[i].depth = 0
             THEN [bk EXCEPT ![i] = e]
             ELSE storeLoop_noKeyTest(bk, e, i + 1,
                           IF \/ bk[i].age < bk[replace].age
                              \/ /\ bk[i].age = bk[replace].age
                                 /\ bk[i].depth < bk[replace].depth
                             THEN i
                             ELSE replace)

\* TTBucket::store, transtable.cpp lines 16-42: the loop from entry i on,
\* with `replace` the replacement candidate found so far; e is the entry to
\* be written.  Yields the bucket after the call.
RECURSIVE storeLoop(_, _, _, _)
storeLoop(bk, e, i, replace) ==
    IF i > TTBUCKET_ENTRIES
      THEN IF \/ bk[replace].age < e.age
              \/ /\ bk[replace].age = e.age
                 /\ \/ bk[replace].depth < e.depth
                    \/ bk[replace].depth = e.depth /\ e.bound = BOUND_EXACT
             THEN [bk EXCEPT ![replace] = e]
             ELSE bk
      ELSE IF bk[i].depth = 0
             THEN [bk EXCEPT ![i] = e]
             ELSE IF bk[i].key = e.key
                    THEN IF e.depth >= bk[i].depth
                           THEN [bk EXCEPT ![i] = e]
                           ELSE bk
                    ELSE storeLoop(bk, e, i + 1,
                           IF \/ bk[i].age < bk[replace].age
                              \/ /\ bk[i].age = bk[replace].age
                                 /\ bk[i].depth < bk[replace].depth
                             THEN i
                             ELSE replace)

\* TTBucket::store with the loop begun at entries[1] (shows what C28 owes
\* to the loop's visiting every entry in order)
TTBucket_store_fromSecond(bk, e) == storeLoop(bk, e, 2, 1)

\* TTBucket::store: replace starts at entries[0]
TTBucket_store(bk, e) == storeLoop(bk, e, 1, 1)

\* TTBucket::probe, transtable.cpp lines 48-58: the index of the entry
\* found, 0 for nullptr
RECURSIVE probeLoop(_, _, _)
probeLoop(bk, key, i) ==
    IF i > TTBUCKET_ENTRIES
      THEN 0
      ELSE IF bk[i].depth = 0
             THEN 0
             ELSE IF bk[i].key = key THEN i ELSE probeLoop(bk, key, i + 1)

TTBucket_probe(bk, key) == probeLoop(bk, key, 1)

\* TranspositionTable::store: the table after the call
TranspositionTable_store(tbl, a, key, depth, bound, score, move) ==
    [tbl EXCEPT ![bucketOf(key)] =
        TTBucket_store(@, Entry(key, depth, bound, score, move, a))]

\* what a probe that yields nullptr is recorded as
NullEntry == [key |-> -1, depth |-> 0, bound |-> 0, score |-> 0, age |-> 0,
              move |-> 0]

\* TranspositionTable::probe: the entry pointed to, NullEntry for nullptr
TranspositionTable_probe(tbl, key) ==
    IF TTBucket_probe(tbl[bucketOf(key)], key) = 0
      THEN NullEntry
      ELSE tbl[bucketOf(key)][TTBucket_probe(tbl[bucketOf(key)], key)]

(***************************************************************************)
(* Position (src/engine/position.h, src/position.cpp).                     *)
(*                                                                         *)
(* A position is a record p with the members of class Position:            *)
(*   board, pieceSq, pieceCount, index, colorBB, pieceTypeBB, info,        *)
(*   prevStates, psqScore, gamePly, turn.                                  *)
(* A Bitboard is the set of its squares: | is \cup, & is \cap, ^ is the    *)
(* symmetric difference.  A Zobrist key is the set of the table entries    *)
(* XORed into it (ZobristPSQ[c][pt][sq], ZobristCR[cr], ZobristEP[f],      *)
(* ZobristBlackSide), with the symmetric difference as XOR: two keys that  *)
(* are equal as sets are equal as numbers whatever the table holds.        *)
(* info.castlingRight is the set of its bits.                              *)
(*                                                                         *)
(* Storage that the code leaves behind and does not read again is not      *)
(* kept: pieceSq[c][pt] is a function on 0 .. pieceCount[c][pt] - 1, index *)
(* a function on the occupied squares, prevStates a sequence of gamePly    *)
(* entries.  A read of a slot left behind is a read outside the function's *)
(* domain, which TLC reports as an error.                                  *)
(***************************************************************************)
Squares == 0..(SQUARE_CNT - 1)

Sides == {WHITE, BLACK}

PieceTypes == PAWN..KING

\* Bitboard ^
bbXor(a, b) == (a \ b) \cup (b \ a)

\* Square::getFile, Square::getRank, Square(rank, file), Square::isValid
getFile(sq) == sq % 8

getRank(sq) == sq \div 8

SquareOf(rank, file) == rank * 8 + file

isValid(sq) == 0 <= sq /\ sq < SQUARE_CNT

\* Manhattan distance between squares
abs(x) == IF x < 0 THEN -x ELSE x

distance(sq1, sq2) ==
    abs(getRank(sq1) - getRank(sq2)) + abs(getFile(sq1) - getFile(sq2))

opposite(c) == IF c = WHITE THEN BLACK ELSE WHITE

\* Square::relativeTo: flips the rank for BLACK
relSquare(sq, c) == IF c = WHITE THEN sq ELSE sq + 8 * (7 - 2 * getRank(sq))

makePiece(c, pt) == c * 8 + pt

getPieceType(piece) == piece % 8

getPieceSide(piece) ==
    IF piece = PIECE_NULL THEN NULL_COLOR ELSE piece \div 8

\* makeCastling(c, cs) = CR_WHITE_OO << ((c << 1) | cs)
makeCastling(c, cs) == 2 ^ (2 * c + cs)

\* Score is int16_t
wrap16(x) == ((x + 32768) % 65536) - 32768

\* psqTable[c][pt][sq]: the piece's weight plus a bonus for the square, signed
\* from White's side.  initPSQ is not among the sources; the round trip of
\* the accumulator does not depend on the numbers.
psqTable(c, pt, sq) ==
    (IF c = WHITE THEN 1 ELSE -1) * (100 * pt + getRank(relSquare(sq, c)))

\* the Zobrist table entries
ZobristPSQ(c, pt, sq) == <<"psq", c, pt, sq>>

ZobristCR(cr) == <<"cr", cr>>

ZobristEP(f) == <<"ep", f>>

ZobristBlackSide == <<"side">>

\* key ^= entry
keyXor(key, entries) == bbXor(key, entries)

\* Position::pieceBB, occupiedBB, emptyBB
pieceBB(p, c, pt) == p.colorBB[c] \cap p.pieceTypeBB[pt]

occupiedBB(p) == p.pieceTypeBB[PT_ALL]

emptyBB(p) == Squares \ occupiedBB(p)

\* f with f[x] = v, x added to the domain of f if it is not there
setAt(f, x, v) == (x :> v) @@ f

\* f without x in its domain
without(f, x) == [y \in DOMAIN f \ {x} |-> f[y]]

\* Position::putPiece, engine/position.h lines 179-190
putPiece(p, sq, c, pt) ==
    LET n == p.pieceCount[c][pt]
        bb1 == [p.pieceTypeBB EXCEPT ![pt] = @ \cup {sq}]
    IN  [p EXCEPT
           !.colorBB[c] = @ \cup {sq},
           !.pieceTypeBB = [bb1 EXCEPT ![PT_ALL] = @ \cup {sq}],
           !.index = setAt(@, sq, n),
           !.pieceSq[c][pt] = setAt(@, n, sq),
           !.pieceCount[c] = [[@ EXCEPT ![pt] = n + 1] EXCEPT ![PT_ALL] = @ + 1],
           !.board[sq] = makePiece(c, pt),
           !.psqScore = wrap16(@ + psqTable(c, pt, sq)),
           !.info.keyZobrist = keyXor(@, {ZobristPSQ(c, pt, sq)})]

\* Position::movePiece, engine/position.h lines 192-207
movePiece(p, from, to) ==
    LET c == getPieceSide(p.board[from])
        pt == getPieceType(p.board[from])
        fromToBB == bbXor({from}, {to})
        bb1 == [p.pieceTypeBB EXCEPT ![pt] = bbXor(@, fromToBB)]
    IN  [p EXCEPT
           !.colorBB[c] = bbXor(@, fromToBB),
           !.pieceTypeBB = [bb1 EXCEPT ![PT_ALL] = bbXor(@, fromToBB)],
           !.index = without(setAt(@, to, p.index[from]), from),
           !.pieceSq[c][pt][p.index[from]] = to,
           !.board = [[@ EXCEPT ![to] = p.board[from]] EXCEPT ![from] = PIECE_NULL],
           !.psqScore = wrap16(@ + psqTable(c, pt, to) - psqTable(c, pt, from)),
           !.info.keyZobrist =
               keyXor(@, bbXor({ZobristPSQ(c, pt, from)}, {ZobristPSQ(c, pt, to)}))]

\* Position::removePiece without lines 217-218 of engine/position.h: the
\* slot of sq is not given to the last square of the list
removePiece_noSwap(p, sq) ==
    LET c == getPieceSide(p.board[sq])
        pt == getPieceType(p.board[sq])
        n == p.pieceCount[c][pt] - 1
        bb1 == [p.pieceTypeBB EXCEPT ![pt] = bbXor(@, {sq})]
    IN  [p EXCEPT
           !.colorBB[c] = bbXor(@, {sq}),
           !.pieceTypeBB = [bb1 EXCEPT ![PT_ALL] = bbXor(@, {sq})],
           !.pieceSq[c][pt] = without(@, n),
           !.pieceCount[c] = [[@ EXCEPT ![pt] = n] EXCEPT ![PT_ALL] = @ - 1],
           !.index = without(@, sq),
           !.board[sq] = PIECE_NULL,
           !.psqScore = wrap16(@ - psqTable(c, pt, sq)),
           !.info.keyZobrist = keyXor(@, {ZobristPSQ(c, pt, sq)})]

\* Position::removePiece, engine/position.h lines 209-223: the last square of
\* the list takes the slot of sq, and sq the last slot, which is left behind
removePiece(p, sq) ==
    LET c == getPieceSide(p.board[sq])
        pt == getPieceType(p.board[sq])
        n == p.pieceCount[c][pt] - 1
        i == p.index[sq]
        last == p.pieceSq[c][pt][n]
        bb1 == [p.pieceTypeBB EXCEPT ![pt] = bbXor(@, {sq})]
    IN  [p EXCEPT
           !.colorBB[c] = bbXor(@, {sq}),
           !.pieceTypeBB = [bb1 EXCEPT ![PT_ALL] = bbXor(@, {sq})],
           !.pieceSq[c][pt] = without(setAt(setAt(@, n, @[i]), i, last), n),
           !.pieceCount[c] = [[@ EXCEPT ![pt] = n] EXCEPT ![PT_ALL] = @ - 1],
           !.index = without(setAt(@, last, i), sq),
           !.board[sq] = PIECE_NULL,
           !.psqScore = wrap16(@ - psqTable(c, pt, sq)),
           !.info.keyZobrist = keyXor(@, {ZobristPSQ(c, pt, sq)})]

\* Position::removeCastlingRight, engine/position.h lines 225-230
removeCastlingRight(p, cr) ==
    IF cr \in p.info.castlingRight
      THEN [p EXCEPT !.info.castlingRight = @ \ {cr},
                     !.info.keyZobrist = keyXor(@, {ZobristCR(cr)})]
      ELSE p

\* a PositionInfo as clear() leaves it
ClearedInfo ==
    [justCaptured |-> PT_NULL, rule50 |-> 0, epSquare |-> SQ_NONE,
     castlingRight |-> {}, keyZobrist |-> {}]

\* Position::clear, position.cpp lines 11-33, on a fresh Position
ClearedPosition ==
    [board |-> [sq \in Squares |-> PIECE_NULL],
     pieceSq |-> [c \in Sides |-> [pt \in PT_ALL..KING |-> <<>>]],
     pieceCount |-> [c \in Sides |-> [pt \in PT_ALL..KING |-> 0]],
     index |-> <<>>,
     colorBB |-> [c \in Sides |-> {}],
     pieceTypeBB |-> [pt \in PT_ALL..KING |-> {}],
     info |-> ClearedInfo,
     prevStates |-> <<>>,
     psqScore |-> 0,
     gamePly |-> 0,
     turn |-> NULL_COLOR]

\* putPiece for each <<square, side, type>> of a list, in order
RECURSIVE putPieces(_, _)
putPieces(p, list) ==
    IF list = <<>>
      THEN p
      ELSE putPieces(putPiece(p, list[1][1], list[1][2], list[1][3]), Tail(list))

\* the putPiece calls of reset(), position.cpp lines 44-67, in their order
StartPieces ==
    [i \in 1..8 |-> <<SquareOf(1, i - 1), WHITE, PAWN>>] \o
    [i \in 1..8 |-> <<SquareOf(6, i - 1), BLACK, PAWN>>] \o
    << <<SquareOf(0, 0), WHITE, ROOK>>, <<SquareOf(0, 7), WHITE, ROOK>>,
       <<SquareOf(7, 0), BLACK, ROOK>>, <<SquareOf(7, 7), BLACK, ROOK>>,
       <<SquareOf(0, 1), WHITE, KNIGHT>>, <<SquareOf(0, 6), WHITE, KNIGHT>>,
       <<SquareOf(7, 1), BLACK, KNIGHT>>, <<SquareOf(7, 6), BLACK, KNIGHT>>,
       <<SquareOf(0, 2), WHITE, BISHOP>>, <<SquareOf(0, 5), WHITE, BISHOP>>,
       <<SquareOf(7, 2), BLACK, BISHOP>>, <<SquareOf(7, 5), BLACK, BISHOP>>,
       <<SquareOf(0, 3), WHITE, QUEEN>>, <<SquareOf(7, 3), BLACK, QUEEN>>,
       <<SquareOf(0, 4), WHITE, KING>>, <<SquareOf(7, 4), BLACK, KING>> >>

\* Position::reset, position.cpp lines 38-75
reset ==
    LET q == putPieces(ClearedPosition, StartPieces)
    IN  [q EXCEPT
           !.turn = WHITE,
           !.info.castlingRight =
               {CR_WHITE_OO, CR_WHITE_OOO, CR_BLACK_OO, CR_BLACK_OOO},
           !.info.keyZobrist = keyXor(@,
               bbXor(bbXor({ZobristCR(CR_WHITE_OO)}, {ZobristCR(CR_WHITE_OOO)}),
                     bbXor({ZobristCR(CR_BLACK_OO)}, {ZobristCR(CR_BLACK_OOO)})))]

(***************************************************************************)
(* Attack sets (src/bitboard.cpp).                                         *)
(***************************************************************************)
\* bbPawnAttack[c][sq], bitboard.cpp lines 190-198: the loop ends before H8
bbPawnAttack(c, sq) ==
    IF sq < SQUARE_CNT - 1
      THEN {to \in {sq + D_LU - 16 * c} : getFile(sq) # 0 /\ isValid(to)}
           \cup {to \in {sq + D_RU - 16 * c} : getFile(sq) # 7 /\ isValid(to)}
      ELSE {}

knightStep == {-17, -15, -10, -6, 6, 10, 15, 17}

kingStep == {D_LD, D_DOWN, D_RD, D_LEFT, D_RIGHT, D_LU, D_UP, D_RU}

\* bbKnightAttack[sq], bbKingAttack[sq], bitboard.cpp lines 199-210
bbKnightAttack(sq) ==
    {to \in {sq + d : d \in knightStep} : isValid(to) /\ distance(sq, to) = 3}

bbKingAttack(sq) ==
    {to \in {sq + d : d \in kingStep} : isValid(to) /\ distance(sq, to) <= 2}

\* bbCastlingInner[c][cs], bitboard.cpp lines 211-217
bbCastlingInner(c, cs) ==
    IF cs = OO
      THEN {relSquare(SquareOf(0, 6), c), relSquare(SquareOf(0, 5), c)}
      ELSE {relSquare(SquareOf(0, 1), c), relSquare(SquareOf(0, 2), c),
            relSquare(SquareOf(0, 3), c)}

ROOK_DIR == {D_UP, D_DOWN, D_LEFT, D_RIGHT}

BISHOP_DIR == {D_LD, D_RD, D_RU, D_LU}

\* one direction of lineAttacks, from the square `to` on
RECURSIVE lineFrom(_, _, _)
lineFrom(to, dir, occ) ==
    IF isValid(to) /\ distance(to, to - dir) <= 2
      THEN {to} \cup (IF to \in occ THEN {} ELSE lineFrom(to + dir, dir, occ))
      ELSE {}

\* lineAttacks, bitboard.cpp lines 154-166
lineAttacks(from, occ, dirs) ==
    UNION {lineFrom(from + d, d, occ) : d \in dirs}

\* the magic tables are filled from lineAttacks
magicRookAttacks(sq, occ) == lineAttacks(sq, occ, ROOK_DIR)

magicBishopAttacks(sq, occ) == lineAttacks(sq, occ, BISHOP_DIR)

\* shiftD<d>(bb): every square of bb one step in direction d, the steps
\* that leave the board dropped
shiftD(bb, dir) ==
    {to \in Squares : (to - dir) \in bb /\ distance(to, to - dir) <= 2}

\* Position::isAttacked, position.cpp lines 80-89
isAttacked(p, sq, by) ==
    \/ bbPawnAttack(opposite(by), sq) \cap pieceBB(p, by, PAWN) # {}
    \/ bbKnightAttack(sq) \cap pieceBB(p, by, KNIGHT) # {}
    \/ bbKingAttack(sq) \cap pieceBB(p, by, KING) # {}
    \/ magicRookAttacks(sq, occupiedBB(p))
          \cap (pieceBB(p, by, ROOK) \cup pieceBB(p, by, QUEEN)) # {}
    \/ magicBishopAttacks(sq, occupiedBB(p))
          \cap (pieceBB(p, by, BISHOP) \cup pieceBB(p, by, QUEEN)) # {}

(***************************************************************************)
(* Position::doMove and Position::undoMove (src/position.cpp).             *)
(***************************************************************************)
\* class Move: from, to, type and promotion piece (KNIGHT when not given)
Move(from, to, mt, promotion) ==
    [from |-> from, to |-> to, type |-> mt, promotion |-> promotion]

NormalMove(from, to) == Move(from, to, "MT_NORMAL", KNIGHT)

\* MOVE_NONE = 0: from and to are A1
MOVE_NONE == Move(0, 0, "MT_NORMAL", KNIGHT)

\* doMove, lines 124-128: the en-passant square of the move before is taken
\* out of the key
clearEp(p) ==
    IF p.info.epSquare # SQ_NONE
      THEN [p EXCEPT !.info.keyZobrist =
                         keyXor(@, {ZobristEP(getFile(p.info.epSquare))}),
                     !.info.epSquare = SQ_NONE]
      ELSE p

\* doMove without lines 136-142 (shows what C40 owes to them)
captureRights_kept(p, to, jc) == p

\* doMove, lines 136-142: a rook taken on its corner takes the right along
captureRights(p, to, jc) ==
    IF jc = ROOK
      THEN IF to = relSquare(SquareOf(0, 0), opposite(p.turn))
             THEN removeCastlingRight(p, makeCastling(opposite(p.turn), OOO))
             ELSE IF to = relSquare(SquareOf(0, 7), opposite(p.turn))
                    THEN removeCastlingRight(p, makeCastling(opposite(p.turn), OO))
                    ELSE p
      ELSE p

\* doMove, lines 129-156: the capture, the double push and rule50
captureOrPush(p, m, from_pt) ==
    LET jc == IF m.type = "MT_EN_PASSANT"
                THEN PAWN
                ELSE getPieceType(p.board[m.to])
        q == [p EXCEPT !.info.justCaptured = jc]
    IN  IF jc # PT_NULL
          THEN LET r == IF m.type = "MT_EN_PASSANT"
                          THEN removePiece(q,
                                 m.to + (IF q.turn = WHITE THEN D_DOWN ELSE D_UP))
                          ELSE removePiece(captureRights(q, m.to, jc), m.to)
               IN  [r EXCEPT !.info.rule50 = 0]
          ELSE IF from_pt = PAWN
                 THEN LET r == IF abs(m.to - m.from) = 16
                                 THEN [q EXCEPT
                                        !.info.epSquare = (m.from + m.to) \div 2,
                                        !.info.keyZobrist = keyXor(@,
                                          {ZobristEP(getFile((m.from + m.to) \div 2))})]
                                 ELSE q
                      IN  [r EXCEPT !.info.rule50 = 0]
                 ELSE [q EXCEPT !.info.rule50 = (@ + 1) % 256]

\* doMove, lines 158-192: the mover's castling rights
moverRights(p, from, from_pt) ==
    IF from_pt = KING
      THEN removeCastlingRight(
               removeCastlingRight(p, makeCastling(p.turn, OO)),
               makeCastling(p.turn, OOO))
      ELSE IF from_pt = ROOK
             THEN IF from = relSquare(SquareOf(0, 0), p.turn)
                    THEN removeCastlingRight(p, makeCastling(p.turn, OOO))
                    ELSE IF from = relSquare(SquareOf(0, 7), p.turn)
                           THEN removeCastlingRight(p, makeCastling(p.turn, OO))
                           ELSE p
             ELSE p

\* the rook's squares of a castling: <<corner, square next to the king>>
castlingRook(turn, from, to) ==
    LET r == IF turn = WHITE THEN 0 ELSE 7
    IN  IF to > from
          THEN <<SquareOf(r, 7), SquareOf(r, 5)>>
          ELSE <<SquareOf(r, 0), SquareOf(r, 3)>>

\* doMove without the side key (shows what the key owes to line 206)
doMove_noSideKey(p, m) ==
    LET from_pt == getPieceType(p.board[m.from])
        p0 == [p EXCEPT !.prevStates = setAt(@, p.gamePly + 1, p.info)]
        p1 == moverRights(captureOrPush(clearEp(p0), m, from_pt), m.from, from_pt)
        p2 == IF m.type = "MT_PROMOTION"
                THEN removePiece(putPiece(p1, m.to, p1.turn, m.promotion), m.from)
                ELSE movePiece(p1, m.from, m.to)
        p3 == IF m.type = "MT_CASTLING"
                THEN movePiece(p2, castlingRook(p2.turn, m.from, m.to)[1],
                                   castlingRook(p2.turn, m.from, m.to)[2])
                ELSE p2
    IN  [p3 EXCEPT !.turn = opposite(@), !.gamePly = @ + 1]

\* Position::doMove, position.cpp lines 118-209
doMove(p, m) ==
    LET from_pt == getPieceType(p.board[m.from])
        p0 == [p EXCEPT !.prevStates = setAt(@, p.gamePly + 1, p.info)]
        p1 == moverRights(captureOrPush(clearEp(p0), m, from_pt), m.from, from_pt)
        p2 == IF m.type = "MT_PROMOTION"
                THEN removePiece(putPiece(p1, m.to, p1.turn, m.promotion), m.from)
                ELSE movePiece(p1, m.from, m.to)
        p3 == IF m.type = "MT_CASTLING"
                THEN movePiece(p2, castlingRook(p2.turn, m.from, m.to)[1],
                                   castlingRook(p2.turn, m.from, m.to)[2])
                ELSE p2
    IN  [p3 EXCEPT !.info.keyZobrist = keyXor(@, {ZobristBlackSide}),
                   !.turn = opposite(@),
                   !.gamePly = @ + 1]

\* undoMove that puts the moved piece back and forgets the captured one
undoMove_noPutBack(p, m) ==
    LET p0 == [p EXCEPT !.gamePly = @ - 1, !.turn = opposite(@)]
        p1 == IF m.type = "MT_PROMOTION"
                THEN removePiece(putPiece(p0, m.from, p0.turn, PAWN), m.to)
                ELSE movePiece(p0, m.to, m.from)
        p3 == IF m.type = "MT_CASTLING"
                THEN movePiece(p1, castlingRook(p1.turn, m.from, m.to)[2],
                                   castlingRook(p1.turn, m.from, m.to)[1])
                ELSE p1
    IN  [p3 EXCEPT !.info = p3.prevStates[p3.gamePly + 1],
                   !.prevStates = SubSeq(@, 1, p3.gamePly)]

\* Position::undoMove, position.cpp lines 214-239
undoMove(p, m) ==
    LET p0 == [p EXCEPT !.gamePly = @ - 1, !.turn = opposite(@)]
        p1 == IF m.type = "MT_PROMOTION"
                THEN removePiece(putPiece(p0, m.from, p0.turn, PAWN), m.to)
                ELSE movePiece(p0, m.to, m.from)
        p2 == IF p1.info.justCaptured # PT_NULL
                THEN IF m.type = "MT_EN_PASSANT"
                       THEN putPiece(p1,
                              m.to + (IF p1.turn = WHITE THEN D_DOWN ELSE D_UP),
                              opposite(p1.turn), p1.info.justCaptured)
                       ELSE putPiece(p1, m.to, opposite(p1.turn),
                                     p1.info.justCaptured)
                ELSE p1
        p3 == IF m.type = "MT_CASTLING"
                THEN movePiece(p2, castlingRook(p2.turn, m.from, m.to)[2],
                                   castlingRook(p2.turn, m.from, m.to)[1])
                ELSE p2
    IN  [p3 EXCEPT !.info = p3.prevStates[p3.gamePly + 1],
                   !.prevStates = SubSeq(@, 1, p3.gamePly)]

(***************************************************************************)
(* Pseudo-legal move generation (src/position.cpp); a MoveList is the set  *)
(* of its moves.                                                           *)
(***************************************************************************)
promPieceType == {KNIGHT, QUEEN}

\* Position::revealPawnMoves, position.cpp lines 282-304
revealPawnMoves(p, destBB, direction) ==
    UNION {IF (IF p.turn = WHITE THEN to > SquareOf(6, 7) ELSE to < SquareOf(1, 0))
             THEN {Move(to - direction, to, "MT_PROMOTION", pt) : pt \in promPieceType}
             ELSE {NormalMove(to - direction, to)} : to \in destBB}

\* Position::revealMoves, position.cpp lines 309-321
revealMoves(from, attackBB) == {NormalMove(from, to) : to \in attackBB}

\* generatePawnMoves, lines 340-351: the en-passant captures
enPassantMoves(p, LEFT_CAPT, RIGHT_CAPT) ==
    LET ep == p.info.epSquare
        TURN_PAWN == makePiece(p.turn, PAWN)
    IN  IF ep # SQ_NONE
          THEN {Move(from, ep, "MT_EN_PASSANT", KNIGHT) :
                   from \in {f \in {ep - LEFT_CAPT} :
                               getFile(ep) # 7 /\ p.board[f] = TURN_PAWN}}
               \cup
               {Move(from, ep, "MT_EN_PASSANT", KNIGHT) :
                   from \in {f \in {ep - RIGHT_CAPT} :
                               getFile(ep) # 0 /\ p.board[f] = TURN_PAWN}}
          ELSE {}

\* Position::generatePawnMoves<TURN, MG_ALL>, position.cpp lines 326-367
generatePawnMoves(p) ==
    LET TURN == p.turn
        LEFT_CAPT == IF TURN = WHITE THEN D_LU ELSE D_LD
        RIGHT_CAPT == IF TURN = WHITE THEN D_RU ELSE D_RD
        FORWARD == IF TURN = WHITE THEN D_UP ELSE D_DOWN
        BB_REL_RANK_3 == {sq \in Squares :
                            getRank(sq) = (IF TURN = WHITE THEN 2 ELSE 5)}
        pawns == pieceBB(p, TURN, PAWN)
        oneStep == shiftD(pawns, FORWARD) \cap emptyBB(p)
        twoStep == shiftD(oneStep \cap BB_REL_RANK_3, FORWARD) \cap emptyBB(p)
    IN  revealPawnMoves(p, shiftD(pawns, LEFT_CAPT) \cap p.colorBB[opposite(TURN)],
                        LEFT_CAPT)
        \cup revealPawnMoves(p,
                 shiftD(pawns, RIGHT_CAPT) \cap p.colorBB[opposite(TURN)],
                 RIGHT_CAPT)
        \cup enPassantMoves(p, LEFT_CAPT, RIGHT_CAPT)
        \cup revealPawnMoves(p, oneStep, FORWARD)
        \cup {NormalMove(to - (FORWARD + FORWARD), to) : to \in twoStep}

\* generateMoves, lines 393-404: the castlings
castlingMoves(p) ==
    LET TURN == p.turn
        OPPONENT == opposite(TURN)
        REL_SQ_E1 == relSquare(SquareOf(0, 4), TURN)
        REL_SQ_C1 == relSquare(SquareOf(0, 2), TURN)
        REL_SQ_D1 == relSquare(SquareOf(0, 3), TURN)
        REL_SQ_G1 == relSquare(SquareOf(0, 6), TURN)
        REL_SQ_F1 == relSquare(SquareOf(0, 5), TURN)
    IN  (IF /\ makeCastling(TURN, OO) \in p.info.castlingRight
            /\ occupiedBB(p) \cap bbCastlingInner(TURN, OO) = {}
            /\ ~(\/ isAttacked(p, REL_SQ_G1, OPPONENT)
                 \/ isAttacked(p, REL_SQ_F1, OPPONENT)
                 \/ isAttacked(p, REL_SQ_E1, OPPONENT))
           THEN {Move(REL_SQ_E1, REL_SQ_G1, "MT_CASTLING", KNIGHT)}
           ELSE {})
        \cup
        (IF /\ makeCastling(TURN, OOO) \in p.info.castlingRight
            /\ occupiedBB(p) \cap bbCastlingInner(TURN, OOO) = {}
            /\ ~(\/ isAttacked(p, REL_SQ_C1, OPPONENT)
                 \/ isAttacked(p, REL_SQ_D1, OPPONENT)
                 \/ isAttacked(p, REL_SQ_E1, OPPONENT))
           THEN {Move(REL_SQ_E1, REL_SQ_C1, "MT_CASTLING", KNIGHT)}
           ELSE {})

\* the squares of the piece list pieceSq[c][pt][0 .. pieceCount[c][pt] - 1]
listSquares(p, c, pt) ==
    {p.pieceSq[c][pt][i] : i \in 0..(p.pieceCount[c][pt] - 1)}

\* Position::generateMoves<TURN, MG_ALL, false>, position.cpp lines 380-443
generateMoves(p) ==
    LET TURN == p.turn
        target == Squares \ p.colorBB[TURN]
        occ == occupiedBB(p)
    IN  generatePawnMoves(p)
        \cup castlingMoves(p)
        \cup UNION {revealMoves(from, bbKnightAttack(from) \cap target) :
                      from \in listSquares(p, TURN, KNIGHT)}
        \cup UNION {revealMoves(from, bbKingAttack(from) \cap target) :
                      from \in listSquares(p, TURN, KING)}
        \cup UNION {revealMoves(from, magicRookAttacks(from, occ) \cap target) :
                      from \in listSquares(p, TURN, ROOK)
                               \cup listSquares(p, TURN, QUEEN)}
        \cup UNION {revealMoves(from, magicBishopAttacks(from, occ) \cap target) :
                      from \in listSquares(p, TURN, BISHOP)
                               \cup listSquares(p, TURN, QUEEN)}

\* the squares of a bitboard in the order popLSB takes them out
RECURSIVE popLSB(_)
popLSB(bb) ==
    IF bb = {}
      THEN <<>>
      ELSE LET sq == CHOOSE x \in bb : \A y \in bb : x <= y
           IN  <<sq>> \o popLSB(bb \ {sq})

\* the sequences of ss, one after the other
RECURSIVE concat(_)
concat(ss) == IF ss = <<>> THEN <<>> ELSE Head(ss) \o concat(Tail(ss))

\* the MoveList that generateMoves<TURN, MG_ALL, false> fills, in the order
\* of its moves.add calls (position.cpp lines 282-443)
generateMoveList(p) ==
    LET TURN == p.turn
        LEFT_CAPT == IF TURN = WHITE THEN D_LU ELSE D_LD
        RIGHT_CAPT == IF TURN = WHITE THEN D_RU ELSE D_RD
        FORWARD == IF TURN = WHITE THEN D_UP ELSE D_DOWN
        BB_REL_RANK_3 == {sq \in Squares :
                            getRank(sq) = (IF TURN = WHITE THEN 2 ELSE 5)}
        pawns == pieceBB(p, TURN, PAWN)
        target == Squares \ p.colorBB[TURN]
        occ == occupiedBB(p)
        ep == p.info.epSquare
        oneStep == shiftD(pawns, FORWARD) \cap emptyBB(p)
        twoStep == shiftD(oneStep \cap BB_REL_RANK_3, FORWARD) \cap emptyBB(p)
        pawnMoves(destBB, direction) ==
            LET dest == popLSB(destBB)
            IN  concat([k \in 1..Len(dest) |->
                   IF (IF TURN = WHITE THEN dest[k] > SquareOf(6, 7)
                                       ELSE dest[k] < SquareOf(1, 0))
                     THEN <<Move(dest[k] - direction, dest[k], "MT_PROMOTION", KNIGHT),
                            Move(dest[k] - direction, dest[k], "MT_PROMOTION", QUEEN)>>
                     ELSE <<NormalMove(dest[k] - direction, dest[k])>>])
        epMove(direction, edge) ==
            IF /\ ep # SQ_NONE
               /\ getFile(ep) # edge
               /\ p.board[ep - direction] = makePiece(TURN, PAWN)
              THEN <<Move(ep - direction, ep, "MT_EN_PASSANT", KNIGHT)>>
              ELSE <<>>
        twoStepMoves ==
            LET dest == popLSB(twoStep)
            IN  [k \in 1..Len(dest) |->
                    NormalMove(dest[k] - (FORWARD + FORWARD), dest[k])]
        castling(cs, to) ==
            LET m == Move(relSquare(SquareOf(0, 4), TURN), relSquare(to, TURN),
                          "MT_CASTLING", KNIGHT)
            IN  IF m \in castlingMoves(p) THEN <<m>> ELSE <<>>
        reveal(from, attackBB) ==
            LET dest == popLSB(attackBB)
            IN  [k \in 1..Len(dest) |-> NormalMove(from, dest[k])]
        knightAttack(from) == bbKnightAttack(from)
        kingAttack(from) == bbKingAttack(from)
        rookAttack(from) == magicRookAttacks(from, occ)
        bishopAttack(from) == magicBishopAttacks(from, occ)
        figure(pt, attack(_)) ==
            concat([i \in 1..p.pieceCount[TURN][pt] |->
                       reveal(p.pieceSq[TURN][pt][i - 1],
                              attack(p.pieceSq[TURN][pt][i - 1]) \cap target)])
    IN  pawnMoves(shiftD(pawns, LEFT_CAPT) \cap p.colorBB[opposite(TURN)], LEFT_CAPT)
        \o pawnMoves(shiftD(pawns, RIGHT_CAPT) \cap p.colorBB[opposite(TURN)],
                     RIGHT_CAPT)
        \o epMove(LEFT_CAPT, 7)
        \o epMove(RIGHT_CAPT, 0)
        \o pawnMoves(oneStep, FORWARD)
        \o twoStepMoves
        \o castling(OO, SquareOf(0, 6))
        \o castling(OOO, SquareOf(0, 2))
        \o figure(KNIGHT, knightAttack)
        \o figure(KING, kingAttack)
        \o figure(ROOK, rookAttack)
        \o figure(QUEEN, rookAttack)
        \o figure(BISHOP, bishopAttack)
        \o figure(QUEEN, bishopAttack)

\* Position::isLegal's test after doMove, engine/position.h line 236: the
\* side that has just moved did not leave its king attacked
moverKingSafe(p) ==
    ~isAttacked(p, p.pieceSq[opposite(p.turn)][KING][0], p.turn)

(***************************************************************************)
(* Position::isPseudoLegal (src/position.cpp).  The tables bbBetween,      *)
(* bbPawnQuiet and bbAttackEB are declared and filled outside src/; they   *)
(* are taken by their names: the squares strictly between two squares of   *)
(* one rank, file or diagonal, the squares a pawn may push to, and the     *)
(* attacks of a piece on an empty board.                                   *)
(***************************************************************************)
bbBetween(from, to) ==
    LET dr == getRank(to) - getRank(from)
        df == getFile(to) - getFile(from)
        n == IF abs(dr) > abs(df) THEN abs(dr) ELSE abs(df)
        sgn(x) == IF x > 0 THEN 1 ELSE IF x < 0 THEN -1 ELSE 0
    IN  IF dr = 0 \/ df = 0 \/ abs(dr) = abs(df)
          THEN {SquareOf(getRank(from) + k * sgn(dr), getFile(from) + k * sgn(df)) :
                   k \in 1..(n - 1)}
          ELSE {}

bbPawnQuiet(c, sq) ==
    LET FORWARD == IF c = WHITE THEN D_UP ELSE D_DOWN
    IN  {to \in {sq + FORWARD} : isValid(to)}
        \cup {to \in {sq + FORWARD + FORWARD} :
                 getRank(sq) = (IF c = WHITE THEN 1 ELSE 6)}

bbAttackEB(pt, sq) ==
    CASE pt = KNIGHT -> bbKnightAttack(sq)
      [] pt = KING -> bbKingAttack(sq)
      [] pt = BISHOP -> lineAttacks(sq, {}, BISHOP_DIR)
      [] pt = ROOK -> lineAttacks(sq, {}, ROOK_DIR)
      [] pt = QUEEN -> lineAttacks(sq, {}, BISHOP_DIR) \cup lineAttacks(sq, {}, ROOK_DIR)
      [] OTHER -> {}

\* Position::isPseudoLegal, position.cpp lines 245-276
isPseudoLegal(p, move) ==
    LET from == move.from
        to == move.to
        turn == p.turn
        castlingSide == IF getFile(to) = 2 THEN OOO ELSE OO
        pt == getPieceType(p.board[from])
        E1 == relSquare(SquareOf(0, 4), turn)
        castlingOK(cs, sq1, sq2) ==
            /\ makeCastling(turn, cs) \in p.info.castlingRight
            /\ from = E1
            /\ occupiedBB(p) \cap bbCastlingInner(turn, cs) = {}
            /\ ~isAttacked(p, from, opposite(turn))
            /\ ~isAttacked(p, relSquare(sq1, turn), opposite(turn))
            /\ ~isAttacked(p, relSquare(sq2, turn), opposite(turn))
    IN  IF \/ getPieceSide(p.board[from]) # turn
           \/ getPieceSide(p.board[to]) = turn
           \/ occupiedBB(p) \cap bbBetween(from, to) # {}
          THEN FALSE
        ELSE IF move.type = "MT_CASTLING"
          THEN IF castlingSide = OO
                 THEN castlingOK(OO, SquareOf(0, 5), SquareOf(0, 6))
                 ELSE castlingOK(OOO, SquareOf(0, 3), SquareOf(0, 2))
        ELSE IF pt = PAWN
          THEN IF move.type = "MT_EN_PASSANT"
                 THEN to = p.info.epSquare /\ to \in bbPawnAttack(turn, from)
                 ELSE to \in (IF p.board[to] = PIECE_NULL
                                THEN bbPawnQuiet(turn, from)
                                ELSE bbPawnAttack(turn, from))
        ELSE to \in bbAttackEB(pt, from)

\* Engine::perft<false>, engine.cpp lines 252-278: the number it returns and
\* the position it leaves
RECURSIVE perft(_, _)
\* perft with a loop that leaves out the first move of the list
perft_fromSecond(p, depth) ==
    LET moveList == generateMoveList(p)
        RECURSIVE loop(_, _, _)
        loop(q, moveIdx, nodes) ==
            LET move == moveList[moveIdx]
                done == doMove(q, move)
                sub == perft(done, depth - 1)
            IN  IF moveIdx > Len(moveList)
                  THEN [nodes |-> nodes, pos |-> q]
                ELSE IF ~moverKingSafe(done)
                  THEN loop(undoMove(done, move), moveIdx + 1, nodes)
                ELSE loop(undoMove(sub.pos, move), moveIdx + 1, nodes + sub.nodes)
    IN  IF depth = 0
          THEN [nodes |-> 1, pos |-> p]
          ELSE loop(p, 2, 0)

perft(p, depth) ==
    LET moveList == generateMoveList(p)
        RECURSIVE loop(_, _, _)
        \* the for loop from moveIdx on, with nodes counted so far
        loop(q, moveIdx, nodes) ==
            LET move == moveList[moveIdx]
                done == doMove(q, move)
                sub == perft(done, depth - 1)
            IN  IF moveIdx > Len(moveList)
                  THEN [nodes |-> nodes, pos |-> q]
                ELSE IF ~moverKingSafe(done)
                  THEN loop(undoMove(done, move), moveIdx + 1, nodes)
                ELSE loop(undoMove(sub.pos, move), moveIdx + 1, nodes + sub.nodes)
    IN  IF depth = 0
          THEN [nodes |-> 1, pos |-> p]
          ELSE loop(p, 1, 0)

(***************************************************************************)
(* MoveList (src/engine/movelist.cpp and the older src/movelist.cpp).      *)
(* moves[0 .. moveCnt - 1] is the sequence ms, moves[i] being ms[i + 1].   *)
(***************************************************************************)
\* std::swap(moves[i], moves[j])
swap(ms, i, j) == [ms EXCEPT ![i + 1] = ms[j + 1], ![j + 1] = ms[i + 1]]

\* the for loop of MoveList::getNextBest, engine/movelist.cpp lines 53-55,
\* from i on: always compares with moves[moveIdx]
RECURSIVE selectionPass(_, _, _)
selectionPass(ms, moveIdx, i) ==
    IF i < Len(ms)
      THEN selectionPass(IF ms[i + 1].score > ms[moveIdx + 1].score
                           THEN swap(ms, i, moveIdx)
                           ELSE ms,
                         moveIdx, i + 1)
      ELSE ms

\* the for loop of MoveList::getNextBest, src/movelist.cpp lines 49-51, from
\* i on: compares moves[i] with moves[i - 1]
RECURSIVE bubblePass(_, _)
bubblePass(ms, i) ==
    IF i < Len(ms)
      THEN bubblePass(IF ms[i + 1].score > ms[i].score
                        THEN swap(ms, i, i - 1)
                        ELSE ms,
                      i + 1)
      ELSE ms

\* MoveList::getNextBest, engine/movelist.cpp lines 47-57 and
\* src/movelist.cpp lines 44-53: the list, the cursor and the move returned
getNextBest(source, ms, moveIdx) ==
    IF moveIdx = Len(ms)
      THEN [moves |-> ms, moveIdx |-> moveIdx, ret |-> MOVE_NONE]
      ELSE LET passed == IF source = "engine"
                           THEN selectionPass(ms, moveIdx, moveIdx + 1)
                           ELSE bubblePass(ms, moveIdx + 1)
           IN  [moves |-> passed, moveIdx |-> moveIdx + 1,
                ret |-> passed[moveIdx + 1].move]

(***************************************************************************)
(* The coordinator.                                                        *)
(***************************************************************************)
Threads == 0..(MaxThreads - 1)

\* thread ids in use under the current options
Active == 0..(options.threadCount - 1)

Helpers == 1..(options.threadCount - 1)

\* the positions a caller may hand to startSearch
InputPositions == {"posA", "posB"}

\* a position whose side to move has no legal move (mate or stalemate)
NoMovePositions == {"posMate"}

\* Position::generateLegalMoves leaves a non-empty list (the list the root
\* move manager hands out, move_manager.cpp lines 69-84)
hasLegalMoves(p) == p \notin NoMovePositions

\* enum class StopCause; the member has no initialiser, so any value at first
StopCauses == {"END_SEARCH_CALL", "TIMEOUT", "DEPTH_REACHED"}

\* a default-constructed SearchReturn
NoReturn == [resDepth |-> 0, moveOf |-> 0]

\* isMainThread without the ID test (shows what C6 owes to the test)
isMainThread_any(t) == t \in Threads

\* Searcher::isMainThread: threadLocal->ID == 0
isMainThread(t) == t = 0

\* MultiSearcher::bestThread: the threads of greatest resDepth; the score,
\* which the model does not carry, decides among them.
bestThread ==
    {t \in Active : \A u \in Active : results[u].resDepth <= results[t].resDepth}

\* the SearchReturn endSearch builds from thread t's results
MakeReturn(t) ==
    [resDepth |-> results[t].resDepth, moveOf |-> results[t].moveOf]

InitSearch ==
    /\ options \in [threadCount : 1..MaxThreads, depth : 1..MaxDepth]
    /\ inSearch = FALSE
    /\ stopSearch = FALSE
    /\ externalStop = FALSE
    /\ timeout = FALSE
    /\ stopCause \in StopCauses
    /\ lastSearchReturn = NoReturn
    /\ searchPos = "none"
    /\ results = [t \in Threads |-> [resDepth |-> 0, moveOf |-> 0]]
    /\ handle = [t \in Threads |-> FALSE]
    /\ pc = [t \in Threads |-> "none"]
    /\ curDepth = [t \in Threads |-> 0]
    /\ bestIt = 0
    /\ intRet = NoReturn
    /\ extPc = "idle"
    /\ extRet = NoReturn
    /\ events = <<>>
    /\ searchNo = 0
    /\ ageIncs = 0
    /\ extCalled = FALSE
    /\ extSawSearch = FALSE
    /\ extWroteFirst = FALSE
    /\ endedResult = NoReturn
    /\ lastEnd = "none"
    /\ completed = 0

\* no store call made yet into a bucket
NoStore == [key |-> -1]

\* no probe call made yet
NoProbe == [key |-> -1]

InitTT ==
    /\ table = ClearedTable
    /\ age \in {0, AGE_MAX}
    /\ lastStore = [b \in 0..(BucketCount - 1) |-> NoStore]
    /\ probed = NoProbe
    /\ storeNo = 0
    /\ ageSteps = 0

\* no undoMove call made since the last doMove
NoUndo == [move |-> "none"]

\* the Position after reset(), no move made
InitPosition ==
    /\ pos = reset
    /\ line = <<>>
    /\ snaps = <<>>
    /\ lastUndo = NoUndo
    /\ undos = 0

\* no isPseudoLegal call made in the position
NoTry == [move |-> "none"]

\* no move manager at work
InitMoveManager ==
    /\ ttMove = MOVE_NONE
    /\ ttTried = NoTry

\* no perft call made
NoPerft == [depth |-> -1]

InitPerft ==
    /\ perftRet = NoPerft
    /\ perftCalls = 0

\* no getNextBest call made
NoGet == [move |-> "none"]

\* MoveList::MoveList, engine/movelist.cpp lines 15-17
InitMoveList ==
    /\ mlMoves = <<>>
    /\ mlIdx = 0
    /\ mlGot = NoGet
    /\ mlOut = <<>>

\* the slots after rootSearchStates.resize (search.h line 341) and the
\* threads before idSearch
InitRoot ==
    /\ rootSearchStates = [t \in Threads |-> [depth |-> 0, move |-> MOVE_NONE]]
    /\ rootLoop = [t \in Threads |->
                     [pc |-> "idle", curDepth |-> 0, move |-> MOVE_NONE,
                      firstMove |-> TRUE, handed |-> 0, deferredList |-> <<>>,
                      deferredIdx |-> 0, lastMoveDeferred |-> FALSE]]

\* no call made to the engine
NoCall == [op |-> "none"]

\* Engine::Engine, engine.cpp lines 15-19: reset() after gameState(GS_DRAW);
\* drawCause is not initialized and holds cause
InitEngine(cause) ==
    /\ gameState = "GS_ACTIVE"
    /\ drawCause = cause
    /\ gameHistory = <<>>
    /\ positionRepeats = <<>>
    /\ engineInSearch = FALSE
    /\ gameCall = NoCall
    /\ gameVia = "none"
    /\ gameUndos = 0

INT_MAX == 2147483647

INT_MIN == -INT_MAX - 1

\* x + 2^31 and x - 2^31, for an x that leaves the sum in the range of int
up31(x) == (x + INT_MAX) + 1

down31(x) == x + INT_MIN

\* the exact a + b is outside the range of int
addOverflows(a, b) ==
    IF b > 0 THEN a > INT_MAX - b ELSE IF b < 0 THEN a < INT_MIN - b ELSE FALSE

\* a + b kept in the width of int, two's complement
wrapAdd(a, b) ==
    IF ~addOverflows(a, b) THEN a + b
    ELSE IF b > 0 THEN down31(down31(a) + b)
    ELSE up31(up31(a) + b)

\* the exact a - b is outside the range of int
subOverflows(a, b) ==
    IF b < 0 THEN a > INT_MAX + b ELSE IF b > 0 THEN a < INT_MIN + b ELSE FALSE

\* a - b kept in the width of int, two's complement
wrapSub(a, b) ==
    IF ~subOverflows(a, b) THEN a - b
    ELSE IF b < 0 THEN down31(down31(a) - b)
    ELSE up31(up31(a) - b)

\* What int a + b and a - b leave.  Signed overflow is undefined: the build
\* leaves the wrapped value, or the bits are lost and zero is left.
intAdd(a, b) == IF addOverflows(a, b) THEN {wrapAdd(a, b), 0} ELSE {a + b}

intSub(a, b) == IF subOverflows(a, b) THEN {wrapSub(a, b), 0} ELSE {a - b}

\* delta <<= 1 (search.cpp line 402); undefined as well for a negative delta
shiftLeft1(d) == IF d < 0 THEN {wrapAdd(d, d), 0} ELSE intAdd(d, d)

\* std::max<int>, std::min<int>
max(a, b) == IF a < b THEN b ELSE a

min(a, b) == IF b < a THEN b ELSE a

\* idSearch lines 332-333: aspirationDeltas[threadLocal->ID % 3]
aspirationDeltas == <<25, 10, 40>>

aspirationDelta(t) == aspirationDeltas[(t % 3) + 1]

\* idSearch line 344, with curBestScore = score
firstWindow(t, score) ==
    [delta |-> aspirationDelta(t), alpha |-> score - aspirationDelta(t),
     beta |-> score + aspirationDelta(t)]

\* no thread is in idSearch: the locals do not exist
NoWindow == [delta |-> 0, alpha |-> 0, beta |-> 0]

\* idSearch is not running
IdleFrame ==
    [pc |-> "idle", curDepth |-> 0, bestMove |-> 0, bestScore |-> 0,
     curBestMove |-> 0, curBestScore |-> 0, delta |-> 0, alpha |-> 0,
     beta |-> 0, todo |-> <<>>, move |-> 0, pvSearch |-> TRUE, wait |-> "none"]

\* no value waits to be read by a caller of pvs
NoRet == [by |-> "none"]

\* a default-constructed ThreadInfo, no search made
InitPvs ==
    /\ idFrame = IdleFrame
    /\ pvsStack = <<>>
    /\ pvsRet = NoRet
    /\ threadResults = [resDepth |-> 0, bestMove |-> 0, score |-> 0]
    /\ returned = <<>>
    /\ storeLog = {}

\* no probe was made
NoRead == [pc |-> "idle"]

InitRace ==
    /\ ttReader = NoRead
    /\ ttStores = <<>>

\* no MoveManager constructed
NoManager == [state |-> "none"]

InitManager == moveManager = NoManager

\* no quiescentSearch call made
NoQs == [node |-> "none"]

InitQs == qsCall = NoQs

\* no killer table constructed, no updateKillers call made
NoKillers == [impl |-> "none"]

InitKillers ==
    /\ killers = NoKillers
    /\ killCall = NoKillers

\* idSearch not entered
NoPly == [depth |-> 0]

InitPly ==
    /\ plySearch = NoPly
    /\ plyAccess = {}

\* hardware_concurrency() of the machine
HardwareThreads == 4

\* search.h lines 30-36
TIME_LIMIT_DEFAULT == 5000

TIME_LIMIT_MIN == 100

TIME_LIMIT_MAX == 1000000

SEARCH_DEPTH_DEFAULT == 10

SEARCH_DEPTH_MIN == 1

THREAD_COUNT_MIN == 1

\* no setter called
NoOptCall == [op |-> "none", no |-> 0]

\* MultiSearcher::MultiSearcher, search.cpp lines 15-20, constructed with
\* DEFAULT_SEARCH_OPTIONS, search.h lines 98-99
InitOptions ==
    /\ multiSearcher =
          [options |-> [timeLimit |-> TIME_LIMIT_DEFAULT,
                        threadCount |-> HardwareThreads,
                        depth |-> SEARCH_DEPTH_DEFAULT],
           threads |-> HardwareThreads,
           processer |-> "no-op",
           inSearch |-> FALSE]
    /\ optCall = NoOptCall

InitLate ==
    InitRace /\ InitManager /\ InitQs /\ InitKillers /\ InitPly /\ InitOptions

\* uci_main.cpp lines 154 and 190: the mutex is free, no command was read
InitUCI ==
    /\ ioMutex = "free"
    /\ uciPc = "read"
    /\ uciCmd = "none"

InitAspiration == aspiration = [t \in Threads |-> NoWindow]

\* the objects that a specification leaves alone
InitRest ==
    /\ InitMoveManager /\ InitPerft
    /\ mlSource = "engine" /\ InitMoveList
    /\ InitRoot
    /\ InitAspiration
    /\ InitUCI
    /\ InitPvs
    /\ InitLate
    /\ InitEngine("DC_RULE_50")

Init == InitSearch /\ InitTT /\ InitPosition /\ InitRest

(***************************************************************************)
(* MultiSearcher::startSearch, run by the caller thread.                   *)
(***************************************************************************)
\* startSearch without the inSearch test of lines 66-67 (shows what C3 owes
\* to the test)
startSearch_begin_noGuard(p) ==
    /\ extPc = "idle"
    /\ searchNo < MaxSearches
    /\ inSearch' = TRUE
    /\ searchPos' = p
    /\ options' = [options EXCEPT !.depth =
           IF @ > SEARCH_DEPTH_MAX THEN SEARCH_DEPTH_MAX ELSE @]
    /\ stopSearch' = FALSE
    /\ externalStop' = FALSE
    /\ timeout' = FALSE
    /\ extPc' = "ss_86"
    /\ UNCHANGED <<stopCause, lastSearchReturn, results, handle, pc, curDepth,
                   bestIt, intRet, extRet, events, searchNo, ageIncs,
                   extCalled, extSawSearch, extWroteFirst, endedResult,
                   lastEnd, completed, ttVars, otherVars>>

\* lines 63-82: the inSearch test, then setThreadCount (no change: the
\* count is the stored one), inSearch = true, the copy of the position, the
\* depth clamp and the reset of the three flags.
startSearch_begin_do(p) ==
    /\ extPc = "idle"
    /\ IF inSearch
         THEN /\ extPc' = "ss_throw"
              /\ UNCHANGED <<options, inSearch, searchPos, stopSearch,
                             externalStop, timeout>>
         ELSE /\ searchNo < MaxSearches
              /\ inSearch' = TRUE
              /\ searchPos' = p
              /\ options' = [options EXCEPT !.depth =
                     IF @ > SEARCH_DEPTH_MAX THEN SEARCH_DEPTH_MAX ELSE @]
              /\ stopSearch' = FALSE
              /\ externalStop' = FALSE
              /\ timeout' = FALSE
              /\ extPc' = "ss_86"
    /\ UNCHANGED <<stopCause, lastSearchReturn, results, handle, pc, curDepth,
                   bestIt, intRet, extRet, events, searchNo, ageIncs,
                   extCalled, extSawSearch, extWroteFirst, endedResult,
                   lastEnd, completed>>

startSearch_begin(p) == startSearch_begin_do(p) /\ UNCHANGED <<ttVars, otherVars>>

\* lines 66-67: the exception reaches the caller
startSearch_throw ==
    /\ extPc = "ss_throw"
    /\ extPc' = "idle"
    /\ UNCHANGED <<options, inSearch, stopSearch, externalStop, timeout,
                   stopCause, lastSearchReturn, searchPos, results, handle, pc,
                   curDepth, bestIt, intRet, extRet, events, searchNo, ageIncs,
                   extCalled, extSawSearch, extWroteFirst, endedResult,
                   lastEnd, completed, ttVars, otherVars>>

\* lines 85-87: join the main thread of a search that ended on its own
startSearch_join ==
    /\ extPc = "ss_86"
    /\ handle[0] => pc[0] = "done"
    /\ handle' = [handle EXCEPT ![0] = FALSE]
    /\ extPc' = "ss_88"
    /\ UNCHANGED <<options, inSearch, stopSearch, externalStop, timeout,
                   stopCause, lastSearchReturn, searchPos, results, pc,
                   curDepth, bestIt, intRet, extRet, events, searchNo,
                   ageIncs, extCalled, extSawSearch, extWroteFirst,
                   endedResult, lastEnd, completed, ttVars, otherVars>>

\* lines 88-93: launch the main search thread on MultiSearcher::search
startSearch_launch ==
    /\ extPc = "ss_88"
    /\ handle' = [handle EXCEPT ![0] = TRUE]
    /\ pc' = [pc EXCEPT ![0] = "setup"]
    /\ extPc' = "idle"
    /\ searchNo' = searchNo + 1
    /\ events' = <<>>
    /\ ageIncs' = 0
    /\ extCalled' = FALSE
    /\ extSawSearch' = FALSE
    /\ extWroteFirst' = FALSE
    /\ lastEnd' = "none"
    /\ completed' = 0
    /\ UNCHANGED <<options, inSearch, stopSearch, externalStop, timeout,
                   stopCause, lastSearchReturn, searchPos, results, curDepth,
                   bestIt, intRet, extRet, endedResult, ttVars, otherVars>>

(***************************************************************************)
(* MultiSearcher::endSearch, run by the caller thread.                     *)
(***************************************************************************)
\* line 102: the inSearch test
endSearch_guard_do ==
    /\ extPc = "idle"
    /\ extCalled' = TRUE
    /\ extSawSearch' = (extSawSearch \/ inSearch)
    /\ extPc' = IF inSearch THEN "es_109" ELSE "es_104"
    /\ UNCHANGED <<options, inSearch, stopSearch, externalStop, timeout,
                   stopCause, lastSearchReturn, searchPos, results, handle, pc,
                   curDepth, bestIt, intRet, extRet, events, searchNo,
                   ageIncs, extWroteFirst, endedResult, lastEnd, completed>>

endSearch_guard == endSearch_guard_do /\ UNCHANGED <<ttVars, otherVars>>

\* What a read of lastSearchReturn can yield.  The member is a plain struct:
\* while the main thread stands at its assignment (line 124) the read races
\* with the write and yields the old value, the new one or a mix of both.
readLastSearchReturn ==
    IF pc[0] = "ie_124"
      THEN [resDepth : {lastSearchReturn.resDepth, MakeReturn(bestIt).resDepth},
            moveOf : {lastSearchReturn.moveOf, MakeReturn(bestIt).moveOf}]
      ELSE {lastSearchReturn}

\* line 104: return lastSearchReturn
endSearch_returnLast ==
    /\ extPc = "es_104"
    /\ extRet' \in readLastSearchReturn
    /\ extPc' = "idle"
    /\ UNCHANGED <<options, inSearch, stopSearch, externalStop, timeout,
                   stopCause, lastSearchReturn, searchPos, results, handle, pc,
                   curDepth, bestIt, intRet, events, searchNo, ageIncs,
                   extCalled, extSawSearch, extWroteFirst, endedResult,
                   lastEnd, completed, ttVars, otherVars>>

\* lines 106-109: the caller is not the main search thread; test stopSearch
endSearch_testStop ==
    /\ extPc = "es_109"
    /\ extPc' = IF stopSearch THEN "es_115" ELSE "es_111"
    /\ UNCHANGED <<options, inSearch, stopSearch, externalStop, timeout,
                   stopCause, lastSearchReturn, searchPos, results, handle, pc,
                   curDepth, bestIt, intRet, extRet, events, searchNo,
                   ageIncs, extCalled, extSawSearch, extWroteFirst,
                   endedResult, lastEnd, completed, ttVars, otherVars>>

\* line 111
endSearch_setCause ==
    /\ extPc = "es_111"
    /\ stopCause' = "END_SEARCH_CALL"
    /\ extPc' = "es_112"
    /\ UNCHANGED <<options, inSearch, stopSearch, externalStop, timeout,
                   lastSearchReturn, searchPos, results, handle, pc, curDepth,
                   bestIt, intRet, extRet, events, searchNo, ageIncs,
                   extCalled, extSawSearch, extWroteFirst, endedResult,
                   lastEnd, completed, ttVars, otherVars>>

\* the main thread has not yet tested externalStop (search.cpp line 162)
BeforeTest ==
    pc[0] \notin {"m_cause", "ie_guard", "ie_120", "ie_122", "ie_124",
                  "m_fin", "done"}

\* line 112
endSearch_setExternal ==
    /\ extPc = "es_112"
    /\ externalStop' = TRUE
    /\ extWroteFirst' = BeforeTest
    /\ extPc' = "es_113"
    /\ UNCHANGED <<options, inSearch, stopSearch, timeout, stopCause,
                   lastSearchReturn, searchPos, results, handle, pc, curDepth,
                   bestIt, intRet, extRet, events, searchNo, ageIncs,
                   extCalled, extSawSearch, endedResult, lastEnd, completed,
                   ttVars, otherVars>>

\* line 113
endSearch_setStop ==
    /\ extPc = "es_113"
    /\ stopSearch' = TRUE
    /\ extPc' = "es_115"
    /\ UNCHANGED <<options, inSearch, externalStop, timeout, stopCause,
                   lastSearchReturn, searchPos, results, handle, pc, curDepth,
                   bestIt, intRet, extRet, events, searchNo, ageIncs,
                   extCalled, extSawSearch, extWroteFirst, endedResult,
                   lastEnd, completed, ttVars, otherVars>>

\* endSearch going on without the join of line 115 (shows what C5 owes to
\* the join)
endSearch_join_noWait ==
    /\ extPc = "es_115"
    /\ extPc' = "es_118"
    /\ UNCHANGED <<options, inSearch, stopSearch, externalStop, timeout,
                   stopCause, lastSearchReturn, searchPos, results, handle, pc,
                   curDepth, bestIt, intRet, extRet, events, searchNo,
                   ageIncs, extCalled, extSawSearch, extWroteFirst, endedResult,
                   lastEnd, completed, ttVars, otherVars>>

\* line 115: threads[0].handle.join()
endSearch_join ==
    /\ extPc = "es_115"
    /\ handle[0]
    /\ pc[0] = "done"
    /\ handle' = [handle EXCEPT ![0] = FALSE]
    /\ extPc' = "es_118"
    /\ UNCHANGED <<options, inSearch, stopSearch, externalStop, timeout,
                   stopCause, lastSearchReturn, searchPos, results, pc,
                   curDepth, bestIt, intRet, extRet, events, searchNo,
                   ageIncs, extCalled, extSawSearch, extWroteFirst,
                   endedResult, lastEnd, completed, ttVars, otherVars>>

\* lines 118-124: no search thread is left, so these run undisturbed
endSearch_finish ==
    /\ extPc = "es_118"
    /\ \E bt \in bestThread :
         /\ lastSearchReturn' = MakeReturn(bt)
         /\ extRet' = MakeReturn(bt)
         /\ endedResult' = MakeReturn(bt)
    /\ inSearch' = FALSE
    /\ table' = incrementAge(table, age)[1]
    /\ age' = incrementAge(table, age)[2]
    /\ ageIncs' = ageIncs + 1
    /\ lastEnd' = "external"
    /\ extPc' = "idle"
    /\ UNCHANGED otherVars
    /\ UNCHANGED <<options, stopSearch, externalStop, timeout, stopCause,
                   searchPos, results, handle, pc, curDepth, bestIt, intRet, events, searchNo, extCalled, extSawSearch, extWroteFirst,
                   completed>>

(***************************************************************************)
(* MultiSearcher::search, the body of the main search thread, and          *)
(* Searcher::idSearch, run by every search thread.                         *)
(***************************************************************************)
\* search.cpp lines 133-155: reset the statistics, take the start time and
\* launch the helper threads on idSearch
search_setup ==
    /\ pc[0] = "setup"
    /\ pc' = [t \in Threads |-> IF t \in Active THEN "id_start" ELSE pc[t]]
    /\ handle' = [t \in Threads |-> IF t \in Helpers THEN TRUE ELSE handle[t]]
    /\ UNCHANGED <<options, inSearch, stopSearch, externalStop, timeout,
                   stopCause, lastSearchReturn, searchPos, results, curDepth,
                   bestIt, intRet, extPc, extRet, events, searchNo,
                   ageIncs, extCalled, extSawSearch, extWroteFirst, endedResult,
                   lastEnd, completed, ttVars, otherVars>>

\* idSearch line 336: where the loop test curDepth <= depth leads
loopTest(d) == IF d <= options.depth THEN "id_iter" ELSE "id_end"

\* idSearch lines 320-344: results.resDepth = 0 (bestMove and score keep
\* their values), curDepth = 1, the first loop test and the window of the
\* first iteration around bestScore = SCORE_ZERO
idSearch_start(t) ==
    /\ pc[t] = "id_start"
    /\ results' = [results EXCEPT ![t].resDepth = 0]
    /\ curDepth' = [curDepth EXCEPT ![t] = 1]
    /\ pc' = [pc EXCEPT ![t] = loopTest(1)]
    /\ aspiration' = [aspiration EXCEPT ![t] = firstWindow(t, SCORE_ZERO)]
    /\ UNCHANGED <<options, inSearch, stopSearch, externalStop, timeout,
                   stopCause, lastSearchReturn, searchPos, handle, bestIt,
                   intRet, extPc, extRet, events, searchNo, ageIncs,
                   extCalled, extSawSearch, extWroteFirst, endedResult, lastEnd,
                   completed, ttVars, beforeAsp>>

\* idSearch line 350 and the move loop of lines 353-393 at a root without
\* legal moves: curBestScore = alpha, and no move raises it
rootScore(t) == aspiration[t].alpha

\* idSearch line 399: the score is inside the window
insideWindow(t) ==
    aspiration[t].alpha < rootScore(t) /\ rootScore(t) < aspiration[t].beta

\* the aspiration loop without the stopSearch break of line 396 (shows what
\* C23 owes to the break)
leavesWindowLoop_noStopBreak(t) ==
    hasLegalMoves(searchPos) \/ insideWindow(t)

\* idSearch lines 396-400: the breaks out of while (true).  With legal moves
\* at the root the score, which the model does not carry, ends inside a
\* window.
leavesWindowLoop(t) ==
    stopSearch \/ hasLegalMoves(searchPos) \/ insideWindow(t)

\* idSearch lines 346-404 at a root without legal moves: one round of
\* while (true) that ends in the widening of the window
idSearch_widen(t) ==
    /\ pc[t] = "id_iter"
    /\ ~hasLegalMoves(searchPos)
    /\ ~stopSearch
    /\ ~insideWindow(t)
    /\ \E d \in shiftLeft1(aspiration[t].delta) :
         \E a \in intSub(rootScore(t), d), b \in intAdd(rootScore(t), d) :
            aspiration' = [aspiration EXCEPT ![t] =
                [delta |-> d, alpha |-> max(a, SCORE_LOSE),
                 beta |-> min(b, SCORE_WIN)]]
    /\ UNCHANGED <<searchVars, ttVars, beforeAsp>>

\* pvs lines 505-514: inside the iteration the time check fires and writes
\* stopSearch; pvs is entered from the root move loop (idSearch lines
\* 353-372), which a root without legal moves never enters
pvs_timeCheck(t) ==
    /\ pc[t] = "id_iter"
    /\ hasLegalMoves(searchPos)
    /\ stopSearch' = TRUE
    /\ pc' = [pc EXCEPT ![t] = "tc_timeout"]
    /\ UNCHANGED <<options, inSearch, externalStop, timeout, stopCause,
                   lastSearchReturn, searchPos, results, handle, curDepth,
                   bestIt, intRet, extPc, extRet, events, searchNo,
                   ageIncs, extCalled, extSawSearch, extWroteFirst, endedResult,
                   lastEnd, completed, ttVars, otherVars>>

\* pvs line 515
pvs_setTimeout(t) ==
    /\ pc[t] = "tc_timeout"
    /\ timeout' = TRUE
    /\ pc' = [pc EXCEPT ![t] = "tc_cause"]
    /\ UNCHANGED <<options, inSearch, stopSearch, externalStop, stopCause,
                   lastSearchReturn, searchPos, results, handle, curDepth,
                   bestIt, intRet, extPc, extRet, events, searchNo,
                   ageIncs, extCalled, extSawSearch, extWroteFirst, endedResult,
                   lastEnd, completed, ttVars, otherVars>>

\* pvs lines 516-518: stopCause = TIMEOUT and the unwinding to idSearch
pvs_setCause(t) ==
    /\ pc[t] = "tc_cause"
    /\ stopCause' = "TIMEOUT"
    /\ pc' = [pc EXCEPT ![t] = "id_check"]
    /\ UNCHANGED <<options, inSearch, stopSearch, externalStop, timeout,
                   lastSearchReturn, searchPos, results, handle, curDepth,
                   bestIt, intRet, extPc, extRet, events, searchNo,
                   ageIncs, extCalled, extSawSearch, extWroteFirst, endedResult,
                   lastEnd, completed, ttVars, otherVars>>

\* idSearch with the result written whether or not stopSearch is set at line
\* 407 (shows what C25 owes to the test)
idSearch_testStop_noBreak(t) ==
    /\ pc[t] \in {"id_iter", "id_check"}
    /\ leavesWindowLoop(t)
    /\ pc' = [pc EXCEPT ![t] = "id_accept"]
    /\ completed' = IF t = 0 /\ ~stopSearch THEN completed + 1 ELSE completed
    /\ UNCHANGED <<options, inSearch, stopSearch, externalStop, timeout,
                   stopCause, lastSearchReturn, searchPos, results, handle,
                   curDepth, bestIt, intRet, extPc, extRet, events,
                   searchNo, ageIncs, extCalled, extSawSearch, extWroteFirst,
                   endedResult, lastEnd, ttVars, otherVars>>

\* idSearch lines 338-408: the aspiration loop ran its pvs calls to the end
\* (or was unwound by the time check) and stopSearch is tested
idSearch_testStop(t) ==
    /\ pc[t] \in {"id_iter", "id_check"}
    /\ leavesWindowLoop(t)
    /\ pc' = [pc EXCEPT ![t] = IF stopSearch THEN "id_end" ELSE "id_accept"]
    /\ completed' = IF t = 0 /\ ~stopSearch THEN completed + 1 ELSE completed
    /\ UNCHANGED <<options, inSearch, stopSearch, externalStop, timeout,
                   stopCause, lastSearchReturn, searchPos, results, handle,
                   curDepth, bestIt, intRet, extPc, extRet, events,
                   searchNo, ageIncs, extCalled, extSawSearch, extWroteFirst,
                   endedResult, lastEnd, ttVars, otherVars>>

\* idSearch lines 411-422: the iteration's result is written to results
idSearch_accept(t) ==
    /\ pc[t] = "id_accept"
    /\ results' = [results EXCEPT ![t] =
                     [resDepth |-> curDepth[t], moveOf |-> searchNo]]
    /\ pc' = [pc EXCEPT ![t] = "id_info"]
    /\ UNCHANGED <<options, inSearch, stopSearch, externalStop, timeout,
                   stopCause, lastSearchReturn, searchPos, handle, curDepth,
                   bestIt, intRet, extPc, extRet, events, searchNo,
                   ageIncs, extCalled, extSawSearch, extWroteFirst, endedResult,
                   lastEnd, completed, ttVars, otherVars>>

\* idSearch lines 424-427 and 336: the INFO event of the main thread, then
\* ++curDepth and the loop test
idSearch_info(t) ==
    /\ pc[t] = "id_info"
    /\ events' = IF isMainThread(t)
                    THEN Append(events, [type |-> "INFO", by |-> t,
                                         resDepth |-> results[t].resDepth])
                    ELSE events
    /\ curDepth' = [curDepth EXCEPT ![t] = @ + 1]
    /\ pc' = [pc EXCEPT ![t] = loopTest(curDepth[t] + 1)]
    /\ UNCHANGED <<options, inSearch, stopSearch, externalStop, timeout,
                   stopCause, lastSearchReturn, searchPos, results, handle,
                   bestIt, intRet, extPc, extRet, searchNo, ageIncs,
                   extCalled, extSawSearch, extWroteFirst, endedResult, lastEnd,
                   completed, ttVars, otherVars>>

\* a helper thread returns from idSearch and ends
helper_exit(t) ==
    /\ t # 0
    /\ pc[t] = "id_end"
    /\ pc' = [pc EXCEPT ![t] = "done"]
    /\ UNCHANGED <<options, inSearch, stopSearch, externalStop, timeout,
                   stopCause, lastSearchReturn, searchPos, results, handle,
                   curDepth, bestIt, intRet, extPc, extRet, events,
                   searchNo, ageIncs, extCalled, extSawSearch, extWroteFirst,
                   endedResult, lastEnd, completed, ttVars, otherVars>>

\* search.cpp line 158: back from idSearch, the main thread sets stopSearch
search_stop ==
    /\ pc[0] = "id_end"
    /\ stopSearch' = TRUE
    /\ pc' = [pc EXCEPT ![0] = "m_join"]
    /\ UNCHANGED <<options, inSearch, externalStop, timeout, stopCause,
                   lastSearchReturn, searchPos, results, handle, curDepth,
                   bestIt, intRet, extPc, extRet, events, searchNo,
                   ageIncs, extCalled, extSawSearch, extWroteFirst, endedResult,
                   lastEnd, completed, ttVars, otherVars>>

\* search.cpp lines 159-160: join every helper thread
search_join ==
    /\ pc[0] = "m_join"
    /\ \A t \in Helpers : pc[t] = "done"
    /\ handle' = [t \in Threads |-> IF t \in Helpers THEN FALSE ELSE handle[t]]
    /\ pc' = [pc EXCEPT ![0] = "m_test"]
    /\ UNCHANGED <<options, inSearch, stopSearch, externalStop, timeout,
                   stopCause, lastSearchReturn, searchPos, results, curDepth,
                   bestIt, intRet, extPc, extRet, events, searchNo,
                   ageIncs, extCalled, extSawSearch, extWroteFirst, endedResult,
                   lastEnd, completed, ttVars, otherVars>>

\* search.cpp line 162 testing stopSearch in place of externalStop (shows
\* what C1 owes to the choice of the flag)
search_test_onStopSearch ==
    /\ pc[0] = "m_test"
    /\ pc' = [pc EXCEPT ![0] = IF stopSearch THEN "done" ELSE "m_cause"]
    /\ UNCHANGED <<options, inSearch, stopSearch, externalStop, timeout,
                   stopCause, lastSearchReturn, searchPos, results, handle,
                   curDepth, bestIt, intRet, extPc, extRet, events,
                   searchNo, ageIncs, extCalled, extSawSearch, extWroteFirst,
                   endedResult, lastEnd, completed, ttVars, otherVars>>

\* search.cpp line 162: the externalStop test
search_test ==
    /\ pc[0] = "m_test"
    /\ pc' = [pc EXCEPT ![0] = IF externalStop THEN "done" ELSE "m_cause"]
    /\ UNCHANGED <<options, inSearch, stopSearch, externalStop, timeout,
                   stopCause, lastSearchReturn, searchPos, results, handle,
                   curDepth, bestIt, intRet, extPc, extRet, events,
                   searchNo, ageIncs, extCalled, extSawSearch, extWroteFirst,
                   endedResult, lastEnd, completed, ttVars, otherVars>>

\* search.cpp lines 164-165
search_cause ==
    /\ pc[0] = "m_cause"
    /\ stopCause' = IF timeout THEN stopCause ELSE "DEPTH_REACHED"
    /\ pc' = [pc EXCEPT ![0] = "ie_guard"]
    /\ UNCHANGED <<options, inSearch, stopSearch, externalStop, timeout,
                   lastSearchReturn, searchPos, results, handle, curDepth,
                   bestIt, intRet, extPc, extRet, events, searchNo,
                   ageIncs, extCalled, extSawSearch, extWroteFirst, endedResult,
                   lastEnd, completed, ttVars, otherVars>>

(***************************************************************************)
(* MultiSearcher::endSearch as called by the main search thread itself     *)
(* (search.cpp line 166).                                                  *)
(***************************************************************************)
\* endSearch lines 102-118: the inSearch test, no join (the caller is thread
\* 0), bestThread()
endSearchInt_guard ==
    /\ pc[0] = "ie_guard"
    /\ IF inSearch
         THEN /\ \E bt \in bestThread : bestIt' = bt
              /\ pc' = [pc EXCEPT ![0] = "ie_120"]
              /\ UNCHANGED intRet
         ELSE /\ intRet' = lastSearchReturn
              /\ pc' = [pc EXCEPT ![0] = "m_fin"]
              /\ UNCHANGED bestIt
    /\ UNCHANGED <<options, inSearch, stopSearch, externalStop, timeout,
                   stopCause, lastSearchReturn, searchPos, results, handle,
                   curDepth, extPc, extRet, events, searchNo, ageIncs,
                   extCalled, extSawSearch, extWroteFirst, endedResult, lastEnd,
                   completed, ttVars, otherVars>>

\* endSearch line 120: inSearch = false
endSearchInt_clear ==
    /\ pc[0] = "ie_120"
    /\ inSearch' = FALSE
    /\ endedResult' = MakeReturn(bestIt)
    /\ pc' = [pc EXCEPT ![0] = "ie_122"]
    /\ UNCHANGED <<options, stopSearch, externalStop, timeout, stopCause,
                   lastSearchReturn, searchPos, results, handle, curDepth,
                   bestIt, intRet, extPc, extRet, events, searchNo,
                   ageIncs, extCalled, extSawSearch, extWroteFirst, lastEnd,
                   completed, ttVars, otherVars>>

\* endSearch line 122: transpositionTable.incrementAge()
endSearchInt_age ==
    /\ pc[0] = "ie_122"
    /\ table' = incrementAge(table, age)[1]
    /\ age' = incrementAge(table, age)[2]
    /\ ageIncs' = ageIncs + 1
    /\ pc' = [pc EXCEPT ![0] = "ie_124"]
    /\ UNCHANGED otherVars
    /\ UNCHANGED <<options, inSearch, stopSearch, externalStop, timeout,
                   stopCause, lastSearchReturn, searchPos, results, handle,
                   curDepth, bestIt, intRet, extPc, extRet, events,
                   searchNo, extCalled, extSawSearch, extWroteFirst, endedResult,
                   lastEnd, completed>>

\* endSearch line 124: return lastSearchReturn = { results, stats }
endSearchInt_return ==
    /\ pc[0] = "ie_124"
    /\ lastSearchReturn' = MakeReturn(bestIt)
    /\ intRet' = MakeReturn(bestIt)
    /\ lastEnd' = "internal"
    /\ bestIt' = 0
    /\ pc' = [pc EXCEPT ![0] = "m_fin"]
    /\ UNCHANGED <<options, inSearch, stopSearch, externalStop, timeout,
                   stopCause, searchPos, results, handle, curDepth,
                   extPc, extRet, events, searchNo, ageIncs, extCalled,
                   extSawSearch, extWroteFirst, endedResult, completed, ttVars, otherVars>>

\* search.cpp line 166: processer(SearchEvent(FINISHED, ...)); the thread ends
search_finished ==
    /\ pc[0] = "m_fin"
    /\ events' = Append(events, [type |-> "FINISHED", by |-> 0,
                                  resDepth |-> intRet.resDepth])
    /\ intRet' = NoReturn
    /\ pc' = [pc EXCEPT ![0] = "done"]
    /\ UNCHANGED <<options, inSearch, stopSearch, externalStop, timeout,
                   stopCause, lastSearchReturn, searchPos, results, handle,
                   curDepth, bestIt, extPc, extRet, searchNo,
                   ageIncs, extCalled, extSawSearch, extWroteFirst, endedResult,
                   lastEnd, completed, ttVars, otherVars>>

(***************************************************************************)
(* The coordinator's specification.                                        *)
(***************************************************************************)
CallerStep ==
    \/ \E p \in InputPositions : startSearch_begin(p)
    \/ startSearch_throw
    \/ startSearch_join
    \/ startSearch_launch
    \/ endSearch_guard
    \/ endSearch_returnLast
    \/ endSearch_testStop
    \/ endSearch_setCause
    \/ endSearch_setExternal
    \/ endSearch_setStop
    \/ endSearch_join
    \/ endSearch_finish

MainStep ==
    \/ search_setup
    \/ search_stop
    \/ search_join
    \/ search_test
    \/ search_cause
    \/ endSearchInt_guard
    \/ endSearchInt_clear
    \/ endSearchInt_age
    \/ endSearchInt_return
    \/ search_finished

IdStep ==
    \E t \in Active :
        \/ idSearch_start(t)
        \/ pvs_timeCheck(t)
        \/ pvs_setTimeout(t)
        \/ pvs_setCause(t)
        \/ idSearch_testStop(t)
        \/ idSearch_accept(t)
        \/ idSearch_info(t)
        \/ helper_exit(t)

Next == CallerStep \/ MainStep \/ IdStep

Spec == Init /\ [][Next]_vars

(***************************************************************************)
(* Properties of the coordinator (checked under Spec).                     *)
(***************************************************************************)
\* the events of the current search of one type
eventsOf(type) == SelectSeq(events, LAMBDA e : e.type = type)

\* every variable but extPc
allButExtPc ==
    <<options, inSearch, stopSearch, externalStop, timeout, stopCause,
      lastSearchReturn, searchPos, results, handle, pc, curDepth, bestIt,
      intRet, extRet, events, searchNo, ageIncs, extCalled, extSawSearch,
      extWroteFirst, endedResult, lastEnd, completed, table, age, otherVars>>

\* the search started last has ended: its main thread is through search(),
\* inSearch is cleared and no call of the caller is under way
searchTerminated ==
    /\ searchNo >= 1
    /\ pc[0] = "done"
    /\ ~inSearch
    /\ extPc = "idle"

\* C37: when a search has terminated, stopCause is END_SEARCH_CALL exactly if
\* externalStop is set, TIMEOUT exactly if timeout is set and externalStop is
\* not, DEPTH_REACHED exactly if neither flag is set, and the two flags are
\* not both set, under every interleaving of endSearch with a time check.
C37_StopCauseAgreesWithFlags ==
    searchTerminated =>
        /\ stopCause = "END_SEARCH_CALL" <=> externalStop
        /\ stopCause = "TIMEOUT" <=> (timeout /\ ~externalStop)
        /\ stopCause = "DEPTH_REACHED" <=> (~timeout /\ ~externalStop)
        /\ ~(externalStop /\ timeout)

\* C37 for the searches during which the caller never entered endSearch
C37_StopCauseAgreesWithFlagsAlone ==
    (searchTerminated /\ ~extCalled) =>
        /\ stopCause = "TIMEOUT" <=> timeout
        /\ stopCause = "DEPTH_REACHED" <=> ~timeout
        /\ ~externalStop

\* C1: when the main thread of a search has ended and the caller never
\* entered endSearch during that search, the processer was handed exactly
\* one FINISHED event, and it is the last event (after every INFO).
C1_FinishedOnceLast ==
    (searchNo >= 1 /\ pc[0] = "done" /\ ~extCalled) =>
        /\ Len(eventsOf("FINISHED")) = 1
        /\ events[Len(events)].type = "FINISHED"

\* C1 witness: a search ended by the time limit, with INFO events before
\* its FINISHED.
C1_Witness ==
    /\ pc[0] = "done" /\ ~extCalled /\ timeout
    /\ Len(eventsOf("INFO")) >= 1
    /\ Len(eventsOf("FINISHED")) = 1

\* C2: a search during which endSearch was entered from the caller thread
\* with inSearch set delivers no FINISHED event.
C2_NoFinishedAfterExternalEnd ==
    extSawSearch => Len(eventsOf("FINISHED")) = 0

\* C3: a startSearch call made while inSearch is set ends in the throw and
\* changes no variable of the searcher: no thread is launched, the stored
\* position, the three flags and the options keep their values, and no
\* search thread is moved.
C3_FailedStartChangesNothing ==
    [][ /\ (extPc = "idle" /\ inSearch /\ extPc' \in {"ss_86", "ss_throw"})
            => (extPc' = "ss_throw" /\ UNCHANGED allButExtPc)
        /\ (extPc = "ss_throw" /\ extPc' # extPc)
            => (extPc' = "idle" /\ UNCHANGED allButExtPc) ]_vars

\* C3 witness: the call has thrown while the search threads are at work
C3_Witness ==
    /\ extPc = "ss_throw"
    /\ inSearch
    /\ pc[0] \in {"id_iter", "id_accept", "id_info"}
    /\ searchPos \in InputPositions

\* C4: an endSearch call that finds inSearch clear returns the result of the
\* search whose inSearch was cleared last, and neither of its two steps
\* changes anything else (age, table, inSearch, flags, lastSearchReturn,
\* events); so any number of such calls in a row return the same value.
C4_IdleEndReturnsLastResult ==
    [][ /\ (extPc = "idle" /\ extPc' = "es_104")
            => UNCHANGED <<table, age, inSearch, stopSearch, externalStop,
                           timeout, lastSearchReturn, events, extRet>>
        /\ (extPc = "es_104" /\ extPc' = "idle")
            => /\ extRet' = endedResult
               /\ UNCHANGED <<table, age, inSearch, stopSearch, externalStop,
                              timeout, lastSearchReturn, events>> ]_vars

\* all threads of T have ended and been joined
allJoined(T) == \A t \in T : pc[t] = "done" /\ ~handle[t]

\* C5 (as stated): once an endSearch call that ended the search has returned,
\* be it the caller's or the main thread's own, every thread of the search,
\* main thread included, has terminated and been joined.
C5_AllJoinedAtReturn ==
    lastEnd # "none" => allJoined(Active)

\* C5 (amended): when the caller's endSearch call that ended the search has
\* returned, every thread of the search has terminated and been joined; when
\* the main thread's own call has returned, every helper has.
C5_JoinedAtReturn ==
    /\ lastEnd = "external" => allJoined(Active)
    /\ lastEnd = "internal" => allJoined(Helpers)

\* C5 witness: the caller's call ended a search that ran a helper thread
C5_Witness ==
    /\ lastEnd = "external"
    /\ Helpers # {}
    /\ extSawSearch
    /\ results[1].resDepth >= 1

\* the iteration thread 0 has passed the stop test of but not yet reported
inFlight == IF pc[0] \in {"id_accept", "id_info"} THEN 1 ELSE 0

\* C6: every INFO event comes from thread 0; there is one per iteration that
\* thread 0 completed without seeing stopSearch; the i-th reports depth i.
C6_InfoPerIteration ==
    /\ \A i \in 1..Len(eventsOf("INFO")) :
          /\ eventsOf("INFO")[i].by = 0
          /\ eventsOf("INFO")[i].resDepth = i
    /\ Len(eventsOf("INFO")) = completed - inFlight

\* C6 witness: two iterations were reported while a helper was searching too
C6_Witness ==
    /\ Len(eventsOf("INFO")) = 2
    /\ Helpers # {}
    /\ results[1].resDepth >= 1

\* the current search is over: its threads are gone and no call is under way
searchOver ==
    /\ searchNo >= 1
    /\ ~inSearch
    /\ pc[0] = "done"
    /\ extPc = "idle"

\* C7: a search that was started and has ended advanced the table's age by
\* exactly one incrementAge call.
C7_OneAgeStepPerSearch ==
    searchOver => ageIncs = 1

\* C25 (as stated): a thread's result is written only when an iteration
\* has run to its end and the test of line 407 found stopSearch clear, so an
\* iteration cut short leaves the result as it was; and resDepth never
\* decreases.
C25_ResultOnlyAtIterationEnd ==
    [][\A t \in Threads :
          results'[t] # results[t]
              => /\ pc[t] = "id_accept"
                 /\ results'[t].resDepth >= results[t].resDepth]_vars

\* C25 (amended): a thread's result is written when idSearch begins, which
\* sets resDepth to 0 and leaves the move and the score of the search
\* before, and after that only when an iteration has run to its end and the
\* test of line 407 found stopSearch clear (for thread 0: resDepth is then
\* the number of iterations that passed the test); such a write raises
\* resDepth.
C25_ResultAtStartOrIterationEnd ==
    [][\A t \in Threads :
          results'[t] # results[t]
              => \/ /\ pc[t] = "id_start"
                    /\ results'[t] = [results[t] EXCEPT !.resDepth = 0]
                 \/ /\ pc[t] = "id_accept"
                    /\ results'[t].resDepth > results[t].resDepth
                    /\ t = 0 => results'[t].resDepth = completed]_vars

\* C25 witness: thread 0 left its second iteration on seeing stopSearch and
\* its result is that of the first
C25_Witness ==
    /\ pc[0] = "id_end"
    /\ stopSearch
    /\ curDepth[0] = 2
    /\ options.depth >= 2
    /\ results[0] = [resDepth |-> 1, moveOf |-> searchNo]

\* C26: when an endSearch call that ended the search has returned, the move
\* it returned was written by a thread of this search (both input positions
\* have legal moves).
C26_ReturnedMoveIsOfThisSearch ==
    lastEnd # "none" => lastSearchReturn.moveOf = searchNo

(***************************************************************************)
(* One search under fair scheduling: the coordinator with a root position  *)
(* that has no legal move among its inputs.                                *)
(***************************************************************************)
\* the searches a caller starts, none while one is on
MaxLiveSearches == 1

\* options.depth of these searches
LiveDepth == 1

InitLive == Init /\ options.depth = LiveDepth

LivePositions == {"posA"} \cup NoMovePositions

\* a step of search thread t inside idSearch
IdStepOf(t) ==
    \/ idSearch_start(t)
    \/ idSearch_widen(t)
    \/ pvs_timeCheck(t)
    \/ pvs_setTimeout(t)
    \/ pvs_setCause(t)
    \/ idSearch_testStop(t)
    \/ idSearch_accept(t)
    \/ idSearch_info(t)
    \/ helper_exit(t)

\* a step of the caller inside a startSearch or endSearch call
CallStep ==
    \/ startSearch_join
    \/ startSearch_launch
    \/ endSearch_returnLast
    \/ endSearch_testStop
    \/ endSearch_setCause
    \/ endSearch_setExternal
    \/ endSearch_setStop
    \/ endSearch_join
    \/ endSearch_finish

NextLive ==
    \/ \E p \in LivePositions :
          ~inSearch /\ searchNo < MaxLiveSearches /\ startSearch_begin(p)
    \/ endSearch_guard
    \/ CallStep
    \/ MainStep
    \/ \E t \in Active : IdStepOf(t)

\* Every thread that can take a step takes one in the end; the caller is not
\* bound to call, but a call it has made goes on.
FairLive ==
    /\ WF_vars(CallStep)
    /\ WF_vars(MainStep)
    /\ \A t \in Threads : WF_vars(t \in Active /\ IdStepOf(t))

SpecLive == InitLive /\ [][NextLive]_vars /\ FairLive

\* a search thread is inside idSearch
inIdSearch(t) ==
    pc[t] \in {"id_start", "id_iter", "tc_timeout", "tc_cause", "id_check",
               "id_accept", "id_info"}

\* the caller is inside an endSearch call that found a search
inEndSearch == extPc \in {"es_109", "es_111", "es_112", "es_113", "es_115", "es_118"}

\* C23: once stopSearch is set during a search, every search thread leaves
\* idSearch, the main thread joins the helpers and ends, and an endSearch
\* call of the caller returns.
C23_StopEndsSearch ==
    /\ (stopSearch /\ pc[0] \notin {"none", "done"})
          ~> (pc[0] = "done" /\ \A t \in Helpers : pc[t] = "done" /\ ~handle[t])
    /\ inEndSearch ~> extPc = "idle"

\* a search at a root without legal moves, two threads, was stopped by
\* endSearch while both threads were widening, and endSearch has returned
C23_Witness ==
    /\ options.threadCount = 2
    /\ ~hasLegalMoves(searchPos)
    /\ lastEnd = "external"
    /\ extPc = "idle"
    /\ \A t \in Active : pc[t] = "done" /\ ~handle[t]
                           /\ aspiration[t].delta > aspirationDelta(t)

\* C24: a search that was launched ends by itself unless the caller calls
\* endSearch.
C24_SearchEndsOnItsOwn == (pc[0] = "setup") ~> (pc[0] = "done" \/ extCalled)

(***************************************************************************)
(* The UCI front-end (src/UCI/uci_main.cpp): the command loop as caller of *)
(* startSearch and endSearch, UCIInformer as the event processer.          *)
(***************************************************************************)
\* the commands of the loop that the model reads
UCICommands == {"go", "stop", "isready"}

\* lines 190-199: getline and lock_guard lock(ioMutex)
uci_command(cmd) ==
    /\ uciPc = "read"
    /\ ioMutex = "free"
    /\ cmd = "go" => searchNo < MaxSearches
    /\ ioMutex' = "loop"
    /\ uciCmd' = cmd
    /\ uciPc' = "dispatch"
    /\ UNCHANGED <<searchVars, ttVars, beforeUci>>

\* lines 213-214: readyok
uci_isready ==
    /\ uciPc = "dispatch"
    /\ uciCmd = "isready"
    /\ uciPc' = "called"
    /\ UNCHANGED <<ioMutex, uciCmd, searchVars, ttVars, beforeUci>>

\* lines 261-264: game.startSearch(), which starts the search on the game's
\* position
uci_go(p) ==
    /\ uciPc = "dispatch"
    /\ uciCmd = "go"
    /\ startSearch_begin_do(p)
    /\ uciPc' = "called"
    /\ UNCHANGED <<ioMutex, uciCmd, ttVars, beforeUci>>

\* lines 267-271: if (!game.isInSearch()) continue, which leaves the scope of
\* the lock
uci_stop_test ==
    /\ uciPc = "dispatch"
    /\ uciCmd = "stop"
    /\ IF inSearch
         THEN uciPc' = "stop_call" /\ UNCHANGED ioMutex
         ELSE uciPc' = "read" /\ ioMutex' = "free"
    /\ UNCHANGED <<uciCmd, searchVars, ttVars, beforeUci>>

\* line 272: game.endSearch()
uci_stop_call ==
    /\ uciPc = "stop_call"
    /\ endSearch_guard_do
    /\ uciPc' = "called"
    /\ UNCHANGED <<ioMutex, uciCmd, ttVars, beforeUci>>

\* lines 273 and 284-290: the call is back (or threw), bestmove is written
\* after stop, the lock goes out of scope
uci_unlock ==
    /\ uciPc = "called"
    /\ extPc = "idle"
    /\ ioMutex' = "free"
    /\ uciPc' = "read"
    /\ UNCHANGED <<uciCmd, searchVars, ttVars, beforeUci>>

\* UCIInformer lines 159-175: lock_guard lock(ioMutex), the line written, the
\* lock released
UCIInformer_enabled == ioMutex = "free"

\* a step of the command loop inside startSearch or endSearch
uci_inCall == uciPc = "called" /\ (CallStep \/ startSearch_throw)

\* a step of search thread t, its INFO event going to UCIInformer
uci_idStep(t) ==
    \/ idSearch_start(t)
    \/ pvs_timeCheck(t)
    \/ pvs_setTimeout(t)
    \/ pvs_setCause(t)
    \/ idSearch_testStop(t)
    \/ idSearch_accept(t)
    \/ (isMainThread(t) => UCIInformer_enabled) /\ idSearch_info(t)
    \/ helper_exit(t)

\* a step of the main search thread, its FINISHED event going to UCIInformer
uci_mainStep ==
    \/ search_setup
    \/ search_stop
    \/ search_join
    \/ search_test
    \/ search_cause
    \/ endSearchInt_guard
    \/ endSearchInt_clear
    \/ endSearchInt_age
    \/ endSearchInt_return
    \/ UCIInformer_enabled /\ search_finished

uci_loopStep ==
    \/ \E cmd \in UCICommands : uci_command(cmd)
    \/ uci_isready
    \/ \E p \in InputPositions : uci_go(p)
    \/ uci_stop_test
    \/ uci_stop_call
    \/ uci_inCall
    \/ uci_unlock

NextUCI ==
    \/ uci_loopStep
    \/ uci_mainStep
    \/ \E t \in Active : uci_idStep(t)

\* Every thread that can take a step takes one in the end; the command loop
\* is not bound to read a command, but handles the one it has read.
FairUCI ==
    /\ WF_vars(uciPc # "read" /\ uci_loopStep)
    /\ WF_vars(uci_mainStep)
    /\ \A t \in Threads : WF_vars(t \in Active /\ uci_idStep(t))

SpecUCI == Init /\ [][NextUCI]_vars /\ FairUCI

\* C27: the command loop gets through every command it has read.
C27_CommandCompletes == (uciPc # "read") ~> (uciPc = "read")





(***************************************************************************)
(* The transposition table's specification: store, probe and incrementAge  *)
(* calls in any order.  The calls are serialised by the table's mutexes    *)
(* (transtable.h lines 93-107).                                            *)
(***************************************************************************)
\* keys tried: SameBucketKeys keys of bucket 1 and one key of bucket 0
TTKeys == {1 + i * BucketCount : i \in 0..(SameBucketKeys - 1)} \cup {BucketCount}

TTBounds == {BOUND_UPPER, BOUND_EXACT}

\* The keys of one bucket differ in nothing but their names (store and probe
\* only compare them), so they are taken into use in the order of their
\* names: the n-th store call uses one of the first n of them.
keysInUse(n) == {k \in TTKeys : k <= 1 + (n - 1) * BucketCount}

\* the coordinator at rest, as the table's specification leaves it
InitIdle ==
    /\ InitSearch
    /\ options = [threadCount |-> 1, depth |-> 1]
    /\ stopCause = "DEPTH_REACHED"

InitTTSpec == InitIdle /\ InitTT /\ InitPosition /\ InitRest

\* the entries of a bucket that hold the key
keyAt(bk, key) ==
    {i \in 1..TTBUCKET_ENTRIES : bk[i].depth # 0 /\ bk[i].key = key}

hasEmpty(bk) == \E i \in 1..TTBUCKET_ENTRIES : bk[i].depth = 0

\* the entries of least age and, among those, of least depth
victimOf(bk) ==
    {v \in 1..TTBUCKET_ENTRIES : \A j \in 1..TTBUCKET_ENTRIES :
        \/ bk[v].age < bk[j].age
        \/ bk[v].age = bk[j].age /\ bk[v].depth <= bk[j].depth}

\* the entry e is preferred to the entry old
dominated(old, e) ==
    \/ old.age < e.age
    \/ /\ old.age = e.age
       /\ \/ old.depth < e.depth
          \/ old.depth = e.depth /\ e.bound = BOUND_EXACT

\* the bucket is full of other keys and its victim gives way to e
storeEvicts(bk, e) ==
    /\ keyAt(bk, e.key) = {}
    /\ ~hasEmpty(bk)
    /\ \E v \in victimOf(bk) : dominated(bk[v], e)

\* the conditions under which a store of e into the bucket is to write
storeWrites(bk, e) ==
    \/ \E i \in keyAt(bk, e.key) : e.depth >= bk[i].depth
    \/ keyAt(bk, e.key) = {} /\ hasEmpty(bk)
    \/ storeEvicts(bk, e)

\* TranspositionTable::store(k, d, b, s, m); the score and the move are the
\* call's number, so that an entry tells which call wrote it
TTStore(k, d, b) ==
    /\ storeNo < MaxStores
    /\ storeNo' = storeNo + 1
    /\ table' = TranspositionTable_store(table, age, k, d, b,
                                         storeNo + 1, storeNo + 1)
    /\ lastStore' = [lastStore EXCEPT ![bucketOf(k)] =
           [key |-> k,
            entry |-> Entry(k, d, b, storeNo + 1, storeNo + 1, age),
            wrote |-> storeWrites(table[bucketOf(k)],
                          Entry(k, d, b, storeNo + 1, storeNo + 1, age)),
            evicted |-> storeEvicts(table[bucketOf(k)],
                          Entry(k, d, b, storeNo + 1, storeNo + 1, age)),
            met |-> IF keyAt(table[bucketOf(k)], k) # {} THEN "match"
                    ELSE IF hasEmpty(table[bucketOf(k)]) THEN "empty"
                    ELSE "full",
            cleared |-> FALSE]]
    /\ probed' = NoProbe
    /\ UNCHANGED <<age, ageSteps, searchVars, posVars, restVars>>

\* TranspositionTable::probe(k)
TTProbe(k) ==
    /\ probed' = [key |-> k,
                  res |-> TranspositionTable_probe(table, k),
                  after |-> lastStore[bucketOf(k)]]
    /\ UNCHANGED <<table, age, lastStore, storeNo, ageSteps, searchVars, posVars,
                   restVars>>

\* TranspositionTable::incrementAge()
TTIncrementAge ==
    /\ ageSteps < MaxAgeSteps
    /\ ageSteps' = ageSteps + 1
    /\ table' = incrementAge(table, age)[1]
    /\ age' = incrementAge(table, age)[2]
    /\ lastStore' = [b \in 0..(BucketCount - 1) |->
           IF age = AGE_MAX /\ lastStore[b] # NoStore
             THEN [lastStore[b] EXCEPT !.cleared = TRUE]
             ELSE lastStore[b]]
    /\ probed' = NoProbe
    /\ UNCHANGED <<storeNo, searchVars, posVars, restVars>>

NextTT ==
    \/ \E k \in keysInUse(storeNo + 1), d \in 1..MaxStoreDepth, b \in TTBounds :
          TTStore(k, d, b)
    \/ \E k \in TTKeys : TTProbe(k)
    \/ TTIncrementAge

SpecTT == InitTTSpec /\ [][NextTT]_vars

(***************************************************************************)
(* Properties of the transposition table (checked under SpecTT).           *)
(***************************************************************************)
\* a probe of the key that the last store into its bucket stored
probedStored ==
    /\ probed # NoProbe
    /\ probed.after # NoStore
    /\ probed.after.key = probed.key

\* C8 (as stated): a store of (k, d, b, s, m) with d >= 1 followed by a
\* probe of k, with no store into the same bucket in between, yields an
\* entry with the stored key, depth, bound, score and move and the age the
\* table had at the store.
C8_ProbeYieldsStored ==
    probedStored => probed.res = probed.after.entry

\* C8 (amended): the same, provided the store met an entry of key k of no
\* greater depth, or no entry of key k and an empty one, or a full bucket
\* whose entry of least age and depth had a lesser age, or the same age and
\* a lesser depth, or the same age and depth with the stored bound EXACT;
\* and provided no incrementAge call cleared the table in between.
C8_ProbeYieldsWritten ==
    (probedStored /\ probed.after.wrote /\ ~probed.after.cleared)
        => probed.res = probed.after.entry

\* C8 witness: the store replaced an entry of a full bucket, the age moved
\* on, and the probe found what was stored
C8_Witness ==
    /\ probedStored
    /\ probed.after.evicted
    /\ ~probed.after.cleared
    /\ probed.res = probed.after.entry
    /\ probed.res.age < age

\* the step is a store call into bucket b
stored(b) == storeNo' = storeNo + 1 /\ lastStore'[b] # lastStore[b]

\* the first empty entry of a bucket that has one
firstEmpty(bk) ==
    CHOOSE i \in 1..TTBUCKET_ENTRIES :
        bk[i].depth = 0 /\ \A j \in 1..(i - 1) : bk[j].depth # 0

\* the bucket holds other entries than its entry i
holdsOthers(bk, i) ==
    \E j \in 1..TTBUCKET_ENTRIES : j # i /\ bk[j].depth # 0

\* C28 (as stated): whenever the bucket has an empty entry, a store call
\* (any key, depth >= 1, any bound) leaves its record in the bucket.
C28_EmptyEntryIsWritten ==
    [][\A b \in 0..(BucketCount - 1) :
          (stored(b) /\ hasEmpty(table[b]))
              => \E i \in 1..TTBUCKET_ENTRIES :
                    table'[b][i] = lastStore'[b].entry]_vars

\* C28 (amended): whenever the bucket has an empty entry and no entry of
\* the incoming key, a store call writes its record into the first empty
\* entry and leaves the other entries as they were.
C28_EmptyEntryIsWrittenForNewKey ==
    [][\A b \in 0..(BucketCount - 1) :
          (/\ stored(b)
           /\ hasEmpty(table[b])
           /\ keyAt(table[b], lastStore'[b].key) = {})
              => table'[b] = [table[b] EXCEPT ![firstEmpty(table[b])] =
                                 lastStore'[b].entry]]_vars

\* C28 witness: the last store into a bucket met two entries of other keys
\* and an empty one, and its record is in the third entry
C28_Witness ==
    \E b \in 0..(BucketCount - 1) :
        /\ lastStore[b] # NoStore
        /\ lastStore[b].met = "empty"
        /\ ~lastStore[b].cleared
        /\ table[b][TTBUCKET_ENTRIES] = lastStore[b].entry

\* C29: when the bucket holds an entry of the incoming key, a store call
\* overwrites that entry if and only if the incoming depth is at least the
\* depth held, and leaves every other entry of the bucket as it was.
C29_MatchOverwrittenIffDeepEnough ==
    [][\A b \in 0..(BucketCount - 1) :
          (stored(b) /\ keyAt(table[b], lastStore'[b].key) # {})
              => \E i \in keyAt(table[b], lastStore'[b].key) :
                    table'[b] =
                        IF lastStore'[b].entry.depth >= table[b][i].depth
                          THEN [table[b] EXCEPT ![i] = lastStore'[b].entry]
                          ELSE table[b]]_vars

\* C29 witness: the last store into a bucket met an entry of its key and
\* did not write, and the bucket holds an entry of another key
C29_Witness ==
    \E b \in 0..(BucketCount - 1) :
        /\ lastStore[b] # NoStore
        /\ lastStore[b].met = "match"
        /\ ~lastStore[b].wrote
        /\ ~lastStore[b].cleared
        /\ \E i \in keyAt(table[b], lastStore[b].key) : holdsOthers(table[b], i)

\* C30: when the bucket is full and holds no entry of the incoming key, a
\* store call replaces an entry of least age and, among those, of least
\* depth, if the incoming record has a newer age, or the same age and a
\* greater depth, or the same age and depth and the bound EXACT; otherwise
\* it leaves the bucket as it was.
C30_VictimReplacedIffDominated ==
    [][\A b \in 0..(BucketCount - 1) :
          (/\ stored(b)
           /\ ~hasEmpty(table[b])
           /\ keyAt(table[b], lastStore'[b].key) = {})
              => \E v \in victimOf(table[b]) :
                    table'[b] =
                        IF dominated(table[b][v], lastStore'[b].entry)
                          THEN [table[b] EXCEPT ![v] = lastStore'[b].entry]
                          ELSE table[b]]_vars

\* C30 witness: the last store into a bucket met a full bucket of other
\* keys and did not write: its record has the age of the victim and no
\* greater depth
C30_Witness ==
    \E b \in 0..(BucketCount - 1) :
        /\ lastStore[b] # NoStore
        /\ lastStore[b].met = "full"
        /\ ~lastStore[b].wrote
        /\ ~lastStore[b].cleared
        /\ \E v \in victimOf(table[b]) : table[b][v].age = lastStore[b].entry.age

\* the non-empty entries of a bucket are its first ones
isPrefix(bk) ==
    \A i \in 1..TTBUCKET_ENTRIES :
        bk[i].depth # 0 => \A j \in 1..(i - 1) : bk[j].depth # 0

\* no two non-empty entries of a bucket hold the same key
keysDiffer(bk) ==
    \A i, j \in 1..TTBUCKET_ENTRIES :
        (i # j /\ bk[i].depth # 0 /\ bk[j].depth # 0) => bk[i].key # bk[j].key

\* C31: in every bucket, after any store, incrementAge and clear calls, the
\* non-empty entries are the first entries of the bucket, no two of them hold
\* the same key, and probe of a key yields an entry if and only if an entry
\* of the bucket holds the key, and then that entry.
C31_BucketsWellFormed ==
    \A b \in 0..(BucketCount - 1) :
        /\ isPrefix(table[b])
        /\ keysDiffer(table[b])
        /\ \A k \in TTKeys :
              /\ TTBucket_probe(table[b], k) # 0 <=> keyAt(table[b], k) # {}
              /\ TTBucket_probe(table[b], k) # 0
                    => keyAt(table[b], k) = {TTBucket_probe(table[b], k)}

\* C31 witness: a bucket is full of three keys after a store replaced one of
\* its entries by a fourth key, and a probe of that key finds its entry
C31_Witness ==
    \E b \in 0..(BucketCount - 1) :
        /\ ~hasEmpty(table[b])
        /\ lastStore[b] # NoStore
        /\ lastStore[b].evicted
        /\ ~lastStore[b].cleared
        /\ TTBucket_probe(table[b], lastStore[b].key) # 0
        /\ table[b][TTBucket_probe(table[b], lastStore[b].key)]
              = lastStore[b].entry

(***************************************************************************)
(* Two search threads on the shared table (search.h lines 166-167): one is *)
(* in Searcher::pvs at the table lookup of lines 531-545, the other makes  *)
(* the store calls of its own pvs invocations (lines 601-604).  store and  *)
(* probe hold the mutex of the key for the call (transtable.h lines        *)
(* 93-107); the members of the entry are read through the pointer that     *)
(* probe returned, after the mutex is released.                            *)
(***************************************************************************)
\* the store calls made by the other thread
MaxRaceStores == 3

\* the lookups made by the reading thread
MaxRaceProbes == 2

\* what the two threads leave alone
raceFrame ==
    <<searchVars, ttAux, posVars, mmVars, perftVars, mlVars, rootVars,
      gameVars, aspVars, uciVars, pvsVars, mgrVars, qsVars, killVars,
      plyVars, optVars>>

\* TranspositionTable::store called by the other thread (the whole call is
\* under the mutex); score and move are the call's number
race_store(k, d, b) ==
    /\ Len(ttStores) < MaxRaceStores
    /\ ttStores' = Append(ttStores, [key |-> k, depth |-> d, bound |-> b])
    /\ table' = TranspositionTable_store(table, age, k, d, b,
                                         Len(ttStores) + 1, Len(ttStores) + 1)
    /\ UNCHANGED <<age, ttReader, raceFrame>>

\* pvs line 531: probe(key) under the mutex; ttEntry points to entries[i]
\* of the bucket, or is nullptr
race_probe(k) ==
    /\ ttReader.pc \in {"idle", "done"}
    /\ ttStores # <<>>
    /\ IF ttReader.pc = "idle" THEN TRUE ELSE ttReader.probes < MaxRaceProbes
    /\ \E n \in {IF ttReader.pc = "idle" THEN 1 ELSE ttReader.probes + 1} :
         ttReader' =
           IF TTBucket_probe(table[bucketOf(k)], k) = 0
             THEN [pc |-> "done", probes |-> n, key |-> k, found |-> FALSE]
             ELSE [pc |-> "depth", probes |-> n, key |-> k, found |-> TRUE,
                   b |-> bucketOf(k),
                   i |-> TTBucket_probe(table[bucketOf(k)], k)]
    /\ UNCHANGED <<ttVars, ttStores, raceFrame>>

\* the entry that ttEntry points to, as it is now
pointee == table[ttReader.b][ttReader.i]

\* pvs line 535: ttEntry->depth is read
race_readDepth ==
    /\ ttReader.pc = "depth"
    /\ ttReader' = [pc |-> "score", depth |-> pointee.depth] @@ ttReader
    /\ UNCHANGED <<ttVars, ttStores, raceFrame>>

\* pvs line 537: ttEntry->score is read
race_readScore ==
    /\ ttReader.pc = "score"
    /\ ttReader' = [pc |-> "boundLower", score |-> pointee.score] @@ ttReader
    /\ UNCHANGED <<ttVars, ttStores, raceFrame>>

\* pvs line 538: ttEntry->bound is read for the BOUND_LOWER test
race_readBoundLower ==
    /\ ttReader.pc = "boundLower"
    /\ ttReader' = [pc |-> "boundUpper", boundLower |-> pointee.bound]
                      @@ ttReader
    /\ UNCHANGED <<ttVars, ttStores, raceFrame>>

\* pvs line 540: ttEntry->bound is read for the BOUND_UPPER test
race_readBoundUpper ==
    /\ ttReader.pc = "boundUpper"
    /\ ttReader' = [pc |-> "move", boundUpper |-> pointee.bound] @@ ttReader
    /\ UNCHANGED <<ttVars, ttStores, raceFrame>>

\* pvs line 545: ttEntry->move is read
race_readMove ==
    /\ ttReader.pc = "move"
    /\ ttReader' = [pc |-> "done", move |-> pointee.move] @@ ttReader
    /\ UNCHANGED <<ttVars, ttStores, raceFrame>>

NextRace ==
    \/ \E k \in keysInUse(Len(ttStores) + 1), d \in 1..MaxStoreDepth,
          b \in TTBounds : race_store(k, d, b)
    \/ \E k \in keysInUse(Len(ttStores)) : race_probe(k)
    \/ race_readDepth
    \/ race_readScore
    \/ race_readBoundLower
    \/ race_readBoundUpper
    \/ race_readMove

SpecRace == InitTTSpec /\ [][NextRace]_vars

\* the lookup found an entry and has read its members
readAll == ttReader.pc = "done" /\ ttReader.found

\* C32: the depth, bound, score and move that pvs has read through the
\* pointer returned by probe are those of one single store call of the
\* probed key.
C32_ReadsOfOneStore ==
    readAll =>
        \E n \in DOMAIN ttStores :
            /\ ttStores[n].key = ttReader.key
            /\ ttStores[n].depth = ttReader.depth
            /\ ttStores[n].bound = ttReader.boundLower
            /\ ttStores[n].bound = ttReader.boundUpper
            /\ ttReader.score = n
            /\ ttReader.move = n

(***************************************************************************)
(* One search thread inside Searcher::idSearch and Searcher::pvs, step by  *)
(* step, over a game tree: a node is the sequence of the moves that lead   *)
(* to it from the root, every node has the same moves, all legal and none  *)
(* a capture, and no node is a check.                                      *)
(***************************************************************************)
\* the searches made
MaxPvsSearches == 2

\* options.depth of these searches
PvsDepth == 3

\* the moves of a node, in the order the generator lists them
TreeMoves == <<1, 2>>

\* no move (MOVE_NONE; the move of a zeroed TTEntry)
NoTreeMove == 0

\* Searcher::evaluate at a node (search.cpp lines 273-277): psqScore as the
\* side to move sees it
treeEval ==
    (<<1>> :> -40) @@ (<<2>> :> 10) @@
    (<<1, 1>> :> -40) @@ (<<1, 2>> :> 10) @@ (<<2, 1>> :> -10) @@
    (<<2, 2>> :> -10) @@
    (<<1, 1, 1>> :> 0) @@ (<<1, 1, 2>> :> -40) @@ (<<1, 2, 1>> :> 40) @@
    (<<1, 2, 2>> :> 40) @@ (<<2, 1, 1>> :> 10) @@ (<<2, 1, 2>> :> -40) @@
    (<<2, 2, 1>> :> 40) @@ (<<2, 2, 2>> :> 40)

\* pos.info.keyZobrist of a node: one key per node, none of them 0
RECURSIVE keyOf(_)
keyOf(path) ==
    IF path = <<>> THEN 1
    ELSE 3 * keyOf(SubSeq(path, 1, Len(path) - 1)) + path[Len(path)]

MAX_GAME_PLY == 1024

SCORE_LOSE_MAX == SCORE_LOSE + MAX_GAME_PLY

SCORE_WIN_MIN == SCORE_WIN - MAX_GAME_PLY

\* Searcher::scoreToTT, Searcher::scoreFromTT (search.h lines 377-387)
scoreToTT(score, searchPly) ==
    IF score > SCORE_WIN_MIN THEN score + searchPly
    ELSE IF score < SCORE_LOSE_MAX THEN score - searchPly ELSE score

scoreFromTT(score, searchPly) ==
    IF score > SCORE_WIN_MIN THEN score - searchPly
    ELSE IF score < SCORE_LOSE_MAX THEN score + searchPly ELSE score

\* bound & BOUND_LOWER, bound & BOUND_UPPER
hasLower(bound) == bound % 2 = 1

hasUpper(bound) == (bound \div 2) % 2 = 1

\* DELTA_MARGIN of quiescentSearch
DELTA_MARGIN == 400

\* Searcher::quiescentSearch, search.cpp lines 461-496: the loop from move i
\* on.  A node is its stand-pat score (evaluate()), whether the side to move
\* is in check, and the list that generatePseudolegalMoves<MG_CAPTURES>
\* leaves: for each move whether doMove accepts it (legal), the weight of
\* the piece on its target square (gain), whether SEECapture is negative
\* for it (seeBad), and what quiescentSearch returns after it (child).
RECURSIVE qsLoop(_, _, _, _, _, _)
qsLoop(node, i, alpha, beta, searchPly, anyLegalMove) ==
    IF i > Len(node.moves)
      THEN IF anyLegalMove THEN alpha
           ELSE IF node.inCheck THEN SCORE_LOSE + searchPly
           ELSE node.standPat
    ELSE IF ~node.moves[i].legal
      THEN qsLoop(node, i + 1, alpha, beta, searchPly, anyLegalMove)
    ELSE IF \/ node.standPat + node.moves[i].gain + DELTA_MARGIN < alpha
            \/ node.moves[i].gain # 0 /\ node.moves[i].seeBad
      THEN qsLoop(node, i + 1, alpha, beta, searchPly, TRUE)
    ELSE IF -node.moves[i].child > alpha
      THEN IF -node.moves[i].child >= beta
             THEN -node.moves[i].child
             ELSE qsLoop(node, i + 1, -node.moves[i].child, beta, searchPly,
                         TRUE)
    ELSE qsLoop(node, i + 1, alpha, beta, searchPly, TRUE)

\* Searcher::quiescentSearch, search.cpp lines 434-497
quiescentSearch(node, alpha, beta, searchPly) ==
    IF node.standPat >= beta THEN beta
    ELSE IF node.moves = <<>>
      THEN IF node.inCheck THEN SCORE_LOSE + searchPly ELSE node.standPat
    ELSE qsLoop(node, 1, max(alpha, node.standPat), beta, searchPly, FALSE)

\* a node of the tree: not a check, no capture
quietNode(path) ==
    [standPat |-> treeEval[path], inCheck |-> FALSE, moves |-> <<>>]

\* MoveManager::next (move_manager.cpp lines 22-101): the table's move first
\* if the node has it, then the generated moves without it
orderMoves(ttm) ==
    IF \E k \in DOMAIN TreeMoves : TreeMoves[k] = ttm
      THEN <<ttm>> \o SelectSeq(TreeMoves, LAMBDA m : m # ttm)
      ELSE TreeMoves

\* the invocation pvs(depth, alpha, beta) at a node, before its first line
newFrame(path, depth, alpha, beta) ==
    [path |-> path, depth |-> depth, alpha |-> alpha, beta |-> beta,
     oldAlpha |-> alpha, ttMove |-> NoTreeMove, todo |-> <<>>,
     move |-> NoTreeMove, bestScore |-> SCORE_LOSE, bestMove |-> NoTreeMove,
     anyLegalMove |-> FALSE, pvSearch |-> TRUE, wait |-> "entry",
     late |-> FALSE, loopAlpha |-> alpha, raised |-> FALSE]

\* the innermost invocation
Top == pvsStack[Len(pvsStack)]

setTop(f) == [pvsStack EXCEPT ![Len(pvsStack)] = f]

\* the innermost invocation returns value; late tells whether stopSearch was
\* set when it returned
returns(value, by, late) ==
    /\ pvsStack' = SubSeq(pvsStack, 1, Len(pvsStack) - 1)
    /\ pvsRet' = [by |-> by, value |-> value, late |-> late]

\* the bound that pvs stores, lines 602-603; oldAlpha is the alpha the
\* invocation was called with (line 530)
storedBound(f) ==
    IF f.alpha = f.oldAlpha THEN BOUND_UPPER
    ELSE IF f.alpha < f.beta THEN BOUND_EXACT
    ELSE BOUND_LOWER

\* pvs lines 600-606: the store and return alpha; the log keeps whether the
\* invocation has read a value returned after stopSearch was set, whether a
\* move scored above the alpha with which the move loop began, and whether
\* the loop ended by the break of line 595 (cutoff)
pvs_finish(f, cutoff) ==
    /\ table' = IF f.anyLegalMove
                  THEN TranspositionTable_store(table, age, keyOf(f.path),
                           f.depth, storedBound(f),
                           scoreToTT(f.bestScore, Len(f.path)), f.bestMove)
                  ELSE table
    /\ storeLog' = IF f.anyLegalMove
                     THEN storeLog \cup {[key |-> keyOf(f.path),
                                          depth |-> f.depth, late |-> f.late,
                                          bound |-> storedBound(f),
                                          raised |-> f.raised,
                                          narrowed |-> f.loopAlpha # f.oldAlpha,
                                          cutoff |-> cutoff]}
                     ELSE storeLog
    /\ returns(IF f.anyLegalMove THEN f.alpha ELSE SCORE_ZERO, "done",
               stopSearch)

\* pvs lines 505-519: this entry is the TIME_CHECK_INTERVAL-th and the time
\* is over
pvs_timeout ==
    /\ pvsStack # <<>>
    /\ Top.wait = "entry"
    /\ stopSearch' = TRUE
    /\ timeout' = TRUE
    /\ returns(SCORE_ZERO, "timeout", TRUE)
    /\ UNCHANGED <<idFrame, threadResults, returned, storeLog, externalStop,
                   ttVars, beforePvs>>

\* pvs lines 520-552: the time check passes; quiescentSearch at depth zero;
\* the table lookup, its cut, the move manager
pvs_entry ==
    /\ pvsStack # <<>>
    /\ Top.wait = "entry"
    /\ \E f \in {Top}, e \in {TranspositionTable_probe(table, keyOf(Top.path))} :
         \E usable \in {e.key # NullEntry.key /\ e.depth >= f.depth},
            ttScore \in {scoreFromTT(e.score, Len(f.path))} :
           \E a \in {IF usable /\ hasLower(e.bound) /\ ttScore > f.alpha
                       THEN ttScore ELSE f.alpha},
              b \in {IF usable /\ hasUpper(e.bound) /\ ttScore < f.beta
                       THEN ttScore ELSE f.beta} :
             IF f.depth = 0
               THEN returns(quiescentSearch(quietNode(f.path), f.alpha,
                                            f.beta, Len(f.path)), "qs",
                            stopSearch)
               ELSE IF usable /\ a >= b
                 THEN returns(a, "tt", stopSearch)
                 ELSE /\ pvsStack' = setTop([f EXCEPT
                             !.alpha = a, !.beta = b, !.loopAlpha = a,
                             !.ttMove = IF e.key # NullEntry.key THEN e.move
                                        ELSE NoTreeMove,
                             !.todo = orderMoves(IF e.key # NullEntry.key
                                                   THEN e.move ELSE NoTreeMove),
                             !.wait = "loop"])
                      /\ UNCHANGED pvsRet
    /\ UNCHANGED <<idFrame, threadResults, returned, storeLog, stopSearch,
                   externalStop, timeout, ttVars, beforePvs>>

\* pvs lines 553-566 and 600-606: the next move is made and searched, with
\* the full window while pvSearch, else with the null window; with no move
\* left the invocation stores and returns
pvs_move ==
    /\ pvsStack # <<>>
    /\ Top.wait = "loop"
    /\ \E f \in {Top} :
         IF f.todo = <<>>
           THEN /\ pvs_finish(f, FALSE)
                /\ UNCHANGED age
           ELSE /\ pvsStack' = Append(
                      setTop([f EXCEPT !.todo = Tail(f.todo),
                                       !.move = Head(f.todo),
                                       !.anyLegalMove = TRUE,
                                       !.wait = IF f.pvSearch THEN "first"
                                                ELSE "null"]),
                      newFrame(f.path \o <<Head(f.todo)>>, f.depth - 1,
                               IF f.pvSearch THEN -f.beta ELSE -f.alpha - 1,
                               -f.alpha))
                /\ UNCHANGED <<pvsRet, storeLog, ttVars>>
    /\ UNCHANGED <<idFrame, threadResults, returned, stopSearch, externalStop,
                   timeout, beforePvs>>

\* pvs lines 560-599: the child's value is read; the second search of a move
\* that beat alpha in the null window; undoMove; the stopSearch test (made
\* only if checkStop); bestScore, alpha and the beta cut
pvs_backWith(checkStop) ==
    /\ pvsStack # <<>>
    /\ Top.wait \in {"first", "null", "re"}
    /\ pvsRet.by # "none"
    /\ \E score \in {-pvsRet.value},
          f \in {[Top EXCEPT !.late = @ \/ pvsRet.late]} :
         IF f.wait = "null" /\ ~stopSearch /\ f.beta > score /\ score > f.alpha
           THEN /\ pvsStack' = Append(setTop([f EXCEPT !.wait = "re"]),
                      newFrame(f.path \o <<f.move>>, f.depth - 1, -f.beta,
                               -score))
                /\ pvsRet' = NoRet
                /\ UNCHANGED <<storeLog, ttVars>>
           ELSE IF checkStop /\ stopSearch
             THEN /\ returns(SCORE_ZERO, "stop", TRUE)
                  /\ UNCHANGED <<storeLog, ttVars>>
             ELSE IF score > f.bestScore
               THEN \E g \in {[f EXCEPT !.pvSearch = FALSE,
                                        !.bestScore = score,
                                        !.bestMove = f.move,
                                        !.alpha = IF score > @ THEN score ELSE @,
                                        !.raised = @ \/ score > f.alpha,
                                        !.wait = "loop"]} :
                      IF g.alpha >= g.beta /\ score > f.alpha
                        THEN pvs_finish(g, TRUE) /\ UNCHANGED age
                        ELSE /\ pvsStack' = setTop(g)
                             /\ pvsRet' = NoRet
                             /\ UNCHANGED <<storeLog, ttVars>>
               ELSE /\ pvsStack' = setTop([f EXCEPT !.wait = "loop"])
                    /\ pvsRet' = NoRet
                    /\ UNCHANGED <<storeLog, ttVars>>
    /\ UNCHANGED <<idFrame, threadResults, returned, stopSearch, externalStop,
                   timeout, beforePvs>>

\* pvs without the stopSearch test of lines 571-572 (shows what C22 owes to
\* the test)
pvs_back_noStopCheck == pvs_backWith(FALSE)

pvs_back == pvs_backWith(TRUE)

\* startSearch lines 63-93, search lines 130-155 and idSearch lines 320-335:
\* the flags are reset, resDepth = 0 (bestMove and score keep their values)
ps_start ==
    /\ idFrame.pc = "idle"
    /\ Len(returned) < MaxPvsSearches
    /\ stopSearch' = FALSE
    /\ externalStop' = FALSE
    /\ timeout' = FALSE
    /\ threadResults' = [threadResults EXCEPT !.resDepth = 0]
    /\ idFrame' = [IdleFrame EXCEPT !.pc = "iter", !.curDepth = 1]
    /\ UNCHANGED <<pvsStack, pvsRet, returned, storeLog, ttVars, beforePvs>>

\* endSearch lines 106-114, run by the caller during the search
ps_stop ==
    /\ idFrame.pc # "idle"
    /\ ~stopSearch
    /\ externalStop' = TRUE
    /\ stopSearch' = TRUE
    /\ UNCHANGED <<pvsVars, timeout, ttVars, beforePvs>>

\* idSearch lines 336-351: the loop test, the locals of the iteration, the
\* first window and the first round of the aspiration loop
id_iteration ==
    /\ idFrame.pc = "iter"
    /\ idFrame' =
         IF idFrame.curDepth > PvsDepth THEN [idFrame EXCEPT !.pc = "end"]
         ELSE [idFrame EXCEPT
                 !.pc = "moves",
                 !.curBestMove = idFrame.bestMove,
                 !.delta = aspirationDelta(0),
                 !.alpha = idFrame.bestScore - aspirationDelta(0),
                 !.beta = idFrame.bestScore + aspirationDelta(0),
                 !.curBestScore = idFrame.bestScore - aspirationDelta(0),
                 !.todo = orderMoves(idFrame.bestMove),
                 !.pvSearch = TRUE]
    /\ UNCHANGED <<pvsStack, pvsRet, threadResults, returned, storeLog,
                   stopSearch, externalStop, timeout, ttVars, beforePvs>>

\* idSearch lines 353-372: the next root move is made and searched (one
\* thread: no move is deferred)
id_move ==
    /\ idFrame.pc = "moves"
    /\ idFrame.todo # <<>>
    /\ idFrame' = [idFrame EXCEPT
                     !.pc = "wait", !.todo = Tail(@), !.move = Head(idFrame.todo),
                     !.wait = IF idFrame.pvSearch THEN "first" ELSE "null"]
    /\ pvsStack' = <<newFrame(<<Head(idFrame.todo)>>, idFrame.curDepth - 1,
                        IF idFrame.pvSearch THEN -idFrame.beta
                        ELSE -idFrame.curBestScore - 1,
                        -idFrame.curBestScore)>>
    /\ UNCHANGED <<pvsRet, threadResults, returned, storeLog, stopSearch,
                   externalStop, timeout, ttVars, beforePvs>>

\* idSearch lines 365-393: the value of the root move is read; its second
\* search; undoMove; the stopSearch test; the best move and the beta cut
id_back ==
    /\ idFrame.pc = "wait"
    /\ pvsStack = <<>>
    /\ pvsRet.by # "none"
    /\ \E score \in {-pvsRet.value}, f \in {idFrame} :
         IF f.wait = "null" /\ ~stopSearch /\ f.beta > score
               /\ score > f.curBestScore
           THEN /\ pvsStack' = <<newFrame(<<f.move>>, f.curDepth - 1, -f.beta,
                                          -score)>>
                /\ idFrame' = [f EXCEPT !.wait = "re"]
           ELSE /\ pvsStack' = <<>>
                /\ idFrame' =
                     IF stopSearch THEN [f EXCEPT !.pc = "round_end"]
                     ELSE IF score > f.curBestScore
                       THEN [f EXCEPT !.pvSearch = FALSE,
                                      !.curBestScore = score,
                                      !.curBestMove = f.move,
                                      !.pc = IF score >= f.beta THEN "round_end"
                                             ELSE "moves"]
                       ELSE [f EXCEPT !.pc = "moves"]
    /\ pvsRet' = NoRet
    /\ UNCHANGED <<threadResults, returned, storeLog, stopSearch, externalStop,
                   timeout, ttVars, beforePvs>>

\* idSearch lines 395-416: after the move loop, the stopSearch tests, the
\* score inside the window accepted as the iteration's result, or the window
\* widened for another round
id_roundEnd ==
    /\ \/ idFrame.pc = "round_end"
       \/ idFrame.pc = "moves" /\ idFrame.todo = <<>>
    /\ \E f \in {idFrame} :
         IF stopSearch
           THEN idFrame' = [f EXCEPT !.pc = "end"] /\ UNCHANGED threadResults
           ELSE IF f.alpha < f.curBestScore /\ f.curBestScore < f.beta
             THEN /\ idFrame' = [f EXCEPT !.pc = "iter",
                                          !.bestMove = f.curBestMove,
                                          !.bestScore = f.curBestScore,
                                          !.curDepth = @ + 1]
                  /\ threadResults' = [resDepth |-> f.curDepth,
                                       bestMove |-> f.curBestMove,
                                       score |-> f.curBestScore]
             ELSE /\ \E d \in shiftLeft1(f.delta) :
                       \E a \in intSub(f.curBestScore, d),
                          b \in intAdd(f.curBestScore, d) :
                         idFrame' = [f EXCEPT
                             !.pc = "moves", !.delta = d,
                             !.alpha = max(a, SCORE_LOSE),
                             !.beta = min(b, SCORE_WIN),
                             !.curBestScore = max(a, SCORE_LOSE),
                             !.todo = orderMoves(f.curBestMove),
                             !.pvSearch = TRUE]
                  /\ UNCHANGED threadResults
    /\ UNCHANGED <<pvsStack, pvsRet, returned, storeLog, stopSearch,
                   externalStop, timeout, ttVars, beforePvs>>

\* search lines 158-166 and endSearch lines 117-124 (run by the search thread
\* or, after the join, by the caller): the results of the thread are
\* returned and the table ages
id_end ==
    /\ idFrame.pc = "end"
    /\ idFrame' = IdleFrame
    /\ stopSearch' = TRUE
    /\ returned' = Append(returned,
           [resDepth |-> threadResults.resDepth,
            bestMove |-> threadResults.bestMove,
            score |-> threadResults.score,
            externalStop |-> externalStop, timeout |-> timeout])
    /\ table' = incrementAge(table, age)[1]
    /\ age' = incrementAge(table, age)[2]
    /\ UNCHANGED <<pvsStack, pvsRet, threadResults, storeLog, externalStop,
                   timeout, beforePvs>>

NextPvs ==
    \/ ps_start
    \/ ps_stop
    \/ id_iteration
    \/ id_move
    \/ id_back
    \/ id_roundEnd
    \/ id_end
    \/ pvs_timeout
    \/ pvs_entry
    \/ pvs_move
    \/ pvs_back

SpecPvs == InitTTSpec /\ [][NextPvs]_vars

\* the value that waits was returned after stopSearch was set and an
\* invocation of pvs reads it in this step
readsLate ==
    /\ pvsStack # <<>>
    /\ pvsRet.by # "none"
    /\ pvsRet.late
    /\ pvsRet' # pvsRet

\* C22: an invocation of pvs that reads a child's value returned after
\* stopSearch was set returns SCORE_ZERO in that step without a store; and no
\* store was ever made by an invocation that had read such a value.
C22_InterruptedPvsStoresNothing ==
    /\ [][readsLate =>
            /\ Len(pvsStack') = Len(pvsStack) - 1
            /\ pvsRet' = [by |-> "stop", value |-> SCORE_ZERO, late |-> TRUE]
            /\ table' = table
            /\ storeLog' = storeLog]_vars
    /\ [](\A st \in storeLog : ~st.late)

\* an invocation of pvs, called by another one, was interrupted after it had
\* searched a move to the end before stopSearch was set by the caller of
\* endSearch
C22_Witness ==
    /\ pvsRet.by = "stop"
    /\ externalStop
    /\ Len(pvsStack) >= 1
    /\ storeLog # {}

(***************************************************************************)
(* Searcher::quiescentSearch called on nodes of every kind.                *)
(***************************************************************************)
\* largest number of moves in the list of a node
MaxQsMoves == 2

QsScores == {-500, 0, 500}

QsMoves ==
    [legal : BOOLEAN, gain : {0, 100}, seeBad : BOOLEAN, child : {-100, 100}]

QsNodes ==
    [standPat : QsScores, inCheck : BOOLEAN,
     moves : UNION {[1..n -> QsMoves] : n \in 0..MaxQsMoves}]

qsFrame ==
    <<searchVars, ttVars, ttAux, posVars, mmVars, perftVars, mlVars, rootVars,
      gameVars, aspVars, uciVars, pvsVars, raceVars, mgrVars, killVars,
      plyVars, optVars>>

\* quiescentSearch(alpha, beta) on a node at searchPly
qs_call(node, alpha, beta, searchPly) ==
    /\ qsCall = NoQs
    /\ alpha < beta
    /\ qsCall' = [node |-> node, alpha |-> alpha, beta |-> beta,
                  searchPly |-> searchPly,
                  ret |-> quiescentSearch(node, alpha, beta, searchPly)]
    /\ UNCHANGED qsFrame

NextQs ==
    \E node \in QsNodes, alpha \in QsScores, beta \in QsScores,
       searchPly \in 0..1 : qs_call(node, alpha, beta, searchPly)

SpecQs == InitTTSpec /\ [][NextQs]_vars

\* the side to move of the node of the last call is in check and has no
\* legal move
qsMated ==
    /\ qsCall # NoQs
    /\ qsCall.node.inCheck
    /\ \A i \in 1..Len(qsCall.node.moves) : ~qsCall.node.moves[i].legal

\* C35: quiescentSearch returns SCORE_LOSE + searchPly whenever the side to
\* move is in check and has no legal move, whatever the window and the
\* static evaluation.
C35_MatedReturnsLose ==
    qsMated => qsCall.ret = SCORE_LOSE + qsCall.searchPly

\* C35 for the calls whose stand-pat score is below beta
C35_MatedBelowBetaReturnsLose ==
    (qsMated /\ qsCall.node.standPat < qsCall.beta)
        => qsCall.ret = SCORE_LOSE + qsCall.searchPly

(***************************************************************************)
(* Killer moves: Searcher::updateKillers and Engine::updateKillers.        *)
(***************************************************************************)
MAX_KILLERS_CNT == 3

\* the moves offered as killers (0 is MOVE_NONE) and the plies of the table
MaxKillerMove == 4

KillerMoves == 1..MaxKillerMove

\* the largest ply of the table
MaxKillerPly == 1

KillerPlies == 0..MaxKillerPly

\* the largest move found in memory that was never written
MaxMemMove == 2

\* Searcher::killers[ply] is Move[MAX_KILLERS_CNT]
KillerArrays == [1..MAX_KILLERS_CNT -> 0..MaxMemMove]

killFrame ==
    <<searchVars, ttVars, ttAux, posVars, mmVars, perftVars, mlVars, rootVars,
      gameVars, aspVars, uciVars, pvsVars, raceVars, mgrVars, qsVars,
      plyVars, optVars>>

\* search.cpp lines 238-239: for (i = 0; i < MAX_KILLERS_CNT - 1; ++i)
\* killers[searchPly][i + 1] = killers[searchPly][i], from index i on
RECURSIVE shiftKillers(_, _)
shiftKillers(ks, i) ==
    IF i < MAX_KILLERS_CNT - 1
    THEN shiftKillers([ks EXCEPT ![i + 2] = ks[i + 1]], i + 1)
    ELSE ks

\* Searcher::updateKillers on the array of one ply
Searcher_updateKillers(ks, bestMove) ==
    IF \E i \in 1..MAX_KILLERS_CNT : ks[i] = bestMove
    THEN ks
    ELSE [shiftKillers(ks, 0) EXCEPT ![1] = bestMove]

\* Engine::updateKillers on the list of one ply
Engine_updateKillers(ks, bestMove) ==
    IF \E i \in 1..Len(ks) : ks[i] = bestMove
    THEN ks
    ELSE IF Len(<<bestMove>> \o ks) > MAX_KILLERS_CNT
         THEN SubSeq(<<bestMove>> \o ks, 1, Len(ks))
         ELSE <<bestMove>> \o ks

\* Searcher::Searcher, search.cpp lines 40-48: prevMoves, history and
\* countermoves are zeroed, killers is left as the memory holds it
searcher_construct(mem) ==
    /\ killers = NoKillers
    /\ killers' = [impl |-> "Searcher", list |-> mem]
    /\ UNCHANGED <<killCall, killFrame>>

\* Engine::initialize and Engine::clear: every killers[i] is cleared
engine_clear ==
    /\ killers = NoKillers
    /\ killers' = [impl |-> "Engine", list |-> [ply \in KillerPlies |-> <<>>]]
    /\ UNCHANGED <<killCall, killFrame>>

kill_update(ply, bestMove) ==
    /\ killers # NoKillers
    /\ killers' =
           [killers EXCEPT !.list[ply] =
                IF killers.impl = "Searcher"
                THEN Searcher_updateKillers(@, bestMove)
                ELSE Engine_updateKillers(@, bestMove)]
    /\ killCall' = [impl |-> killers.impl, ply |-> ply, move |-> bestMove,
                    before |-> killers.list[ply]]
    /\ UNCHANGED killFrame

NextKillers ==
    \/ \E mem \in [KillerPlies -> KillerArrays] : searcher_construct(mem)
    \/ engine_clear
    \/ \E ply \in KillerPlies, m \in KillerMoves : kill_update(ply, m)

SpecKillers == InitTTSpec /\ [][NextKillers]_vars

\* the moves of a killer list, and whether a move other than MOVE_NONE
\* stands in it twice
inList(ks, m) == \E i \in 1..Len(ks) : ks[i] = m

twice(ks) ==
    \E i \in 1..Len(ks), j \in 1..Len(ks) : i < j /\ ks[i] = ks[j] /\ ks[i] # 0

\* the list that holds m first, then the first and the second of ks (as far
\* as ks has them)
shifted(ks, m) ==
    <<m>> \o SubSeq(ks, 1, IF Len(ks) < MAX_KILLERS_CNT THEN Len(ks)
                           ELSE MAX_KILLERS_CNT - 1)

\* C36: updateKillers(ply, m) with m not among killers[ply] makes m the first
\* killer and moves the previous first and second killers to second and
\* third place, dropping the previous third; with m present it changes
\* nothing; a list without a repeated non-null move stays without one.
C36_UpdateKillersShifts ==
    killCall # NoKillers =>
        /\ killers.list[killCall.ply] =
               IF inList(killCall.before, killCall.move)
               THEN killCall.before
               ELSE shifted(killCall.before, killCall.move)
        /\ ~twice(killCall.before) => ~twice(killers.list[killCall.ply])

\* C36 for Engine::updateKillers alone
C36_EngineUpdateKillersShifts ==
    (killCall # NoKillers /\ IF killCall = NoKillers THEN FALSE
                             ELSE killCall.impl = "Engine")
        => C36_UpdateKillersShifts

(***************************************************************************)
(* Searcher::searchPly along one line of the tree of idSearch, pvs and     *)
(* quiescentSearch, and the elements of prevMoves and killers it indexes.  *)
(***************************************************************************)
MAX_SEARCH_PLY == 50

\* captures played one after another below a leaf of pvs
MaxQsPlies == 2

\* the depths handed to setDepth
ConfiguredDepths ==
    {1, 2, MAX_SEARCH_PLY - 1, MAX_SEARCH_PLY, SEARCH_DEPTH_MAX,
     SEARCH_DEPTH_MAX + 5}

plyFrame ==
    <<searchVars, ttVars, ttAux, posVars, mmVars, perftVars, mlVars, rootVars,
      gameVars, aspVars, uciVars, pvsVars, raceVars, mgrVars, qsVars,
      killVars, optVars>>

\* prevMoves and killers are Move[MAX_SEARCH_PLY] and
\* KillerList[MAX_SEARCH_PLY] (search.h lines 261 and 267)
inBounds(a) == 0 <= a.index /\ a.index < MAX_SEARCH_PLY

\* what follows an access outside an array is not defined; the line of the
\* search is followed up to such an access
plyRunning ==
    /\ plySearch # NoPly
    /\ \A a \in plyAccess : inBounds(a)

\* startSearch lines 77-78 and search line 156: idSearch(options.depth) with
\* the depth cut to SEARCH_DEPTH_MAX; idSearch line 331: searchPly = 0
ply_idSearch(depth) ==
    /\ plySearch = NoPly
    /\ plySearch' =
           [depth |-> IF depth > SEARCH_DEPTH_MAX THEN SEARCH_DEPTH_MAX
                      ELSE depth,
            curDepth |-> 1, searchPly |-> 0]
    /\ plyAccess' = {}
    /\ UNCHANGED plyFrame

\* idSearch line 337: the next iteration, begun when the root move loop of
\* the one before has ended
ply_iteration ==
    /\ plyRunning
    /\ plySearch.searchPly = 0
    /\ plySearch.curDepth < plySearch.depth
    /\ plySearch' = [plySearch EXCEPT !.curDepth = @ + 1]
    /\ plyAccess' = {}
    /\ UNCHANGED plyFrame

\* the node at searchPly is one of idSearch or pvs with depth > 0 (depth is
\* curDepth - searchPly), or one of quiescentSearch
plyInPvs == plySearch.searchPly < plySearch.curDepth

plyInQs ==
    /\ plySearch.searchPly >= plySearch.curDepth
    /\ plySearch.searchPly < plySearch.curDepth + MaxQsPlies

\* Searcher::scoreMoves on a list with a move whose target square is empty
\* (called by MoveManager::next, and by sortMoves in quiescentSearch, where
\* such a move is an en-passant capture, which only the move of pvs before
\* the first node of quiescence can have allowed): lines 260-263
ply_scoreMoves ==
    /\ plyRunning
    /\ plyInPvs \/ plySearch.searchPly = plySearch.curDepth
    /\ plyAccess' =
           {[array |-> "killers", index |-> plySearch.searchPly]}
           \cup (IF plySearch.searchPly > 0
                 THEN {[array |-> "prevMoves",
                        index |-> plySearch.searchPly - 1]}
                 ELSE {})
    /\ UNCHANGED <<plySearch, plyFrame>>

\* Searcher::doMove with a legal move, line 213: prevMoves[searchPly++] = move
ply_doMove ==
    /\ plyRunning
    /\ plyInPvs \/ plyInQs
    /\ plyAccess' = {[array |-> "prevMoves", index |-> plySearch.searchPly]}
    /\ plySearch' = [plySearch EXCEPT !.searchPly = @ + 1]
    /\ UNCHANGED plyFrame

\* Searcher::undoMove, lines 220-226
ply_undoMove ==
    /\ plyRunning
    /\ plySearch.searchPly > 0
    /\ plySearch' = [plySearch EXCEPT !.searchPly = @ - 1]
    /\ plyAccess' = {}
    /\ UNCHANGED plyFrame

\* pvs lines 586-593: a quiet move cuts off in a node of pvs
ply_cutoff ==
    /\ plyRunning
    /\ plyInPvs
    /\ plySearch.searchPly > 0
    /\ plyAccess' =
           {[array |-> "killers", index |-> plySearch.searchPly],
            [array |-> "prevMoves", index |-> plySearch.searchPly - 1]}
    /\ UNCHANGED <<plySearch, plyFrame>>

NextPly ==
    \/ \E depth \in ConfiguredDepths : ply_idSearch(depth)
    \/ ply_iteration
    \/ ply_scoreMoves
    \/ ply_doMove
    \/ ply_undoMove
    \/ ply_cutoff

SpecPly == InitTTSpec /\ [][NextPly]_vars

\* C38: in a search with configured depth <= SEARCH_DEPTH_MAX every access
\* to prevMoves[searchPly] and killers[searchPly], those of quiescence search
\* included, has 0 <= searchPly < MAX_SEARCH_PLY.
C38_PlyIndexInBounds ==
    (plySearch # NoPly /\ plySearch.depth <= SEARCH_DEPTH_MAX)
        => \A a \in plyAccess : inBounds(a)

\* C38 for the searches whose depth and quiescence plies together stay
\* below MAX_SEARCH_PLY
C38_PlyIndexInBoundsShallow ==
    (plySearch # NoPly /\ plySearch.depth + MaxQsPlies < MAX_SEARCH_PLY)
        => \A a \in plyAccess : inBounds(a)

\* C34: whenever pvs stores a node, the stored bound is UPPER if and only if
\* no move scored above the alpha with which the move loop began, LOWER if
\* and only if the loop ended with a beta cutoff, and EXACT otherwise,
\* whether or not a table hit narrowed the window before the loop.
C34_StoredBoundTellsOutcome ==
    \A st \in storeLog :
        /\ st.bound = BOUND_UPPER <=> ~st.raised
        /\ st.bound = BOUND_LOWER <=> st.cutoff

\* C34 for the stores of invocations whose alpha the table lookup left as
\* it was
C34_StoredBoundTellsOutcomeUnnarrowed ==
    \A st \in storeLog :
        ~st.narrowed =>
            /\ st.bound = BOUND_UPPER <=> ~st.raised
            /\ st.bound = BOUND_LOWER <=> st.cutoff

\* C21: two searches of the same position with one thread and the same depth
\* limit, both run to that depth (neither cut short by the time limit nor by
\* an endSearch call), return the same best move and the same score.
C21_SearchesAgree ==
    \A i, j \in DOMAIN returned :
        (returned[i].resDepth = PvsDepth /\ returned[j].resDepth = PvsDepth) =>
            /\ returned[i].bestMove = returned[j].bestMove
            /\ returned[i].score = returned[j].score

(***************************************************************************)
(* The position's specification: doMove and undoMove calls in the nesting  *)
(* of a search (search.cpp lines 473-485), starting from reset().  Every   *)
(* move done is a move of generateMoves.  The lines searched are the       *)
(* lines below, each left at any point by up to MaxFree moves.             *)
(***************************************************************************)
\* the move from (r1, f1) to (r2, f2), ranks and files counted from 0
Mv(r1, f1, r2, f2) == NormalMove(SquareOf(r1, f1), SquareOf(r2, f2))

Castle(r, f2) == Move(SquareOf(r, 4), SquareOf(r, f2), "MT_CASTLING", KNIGHT)

\* 1. e4 e5 2. Nf3 Nf6 3. Be2 Be7 4. O-O O-O
LineShort ==
    << Mv(1, 4, 3, 4), Mv(6, 4, 4, 4), Mv(0, 6, 2, 5), Mv(7, 6, 5, 5),
       Mv(0, 5, 1, 4), Mv(7, 5, 6, 4), Castle(0, 6), Castle(7, 6) >>

\* 1. d4 d5 2. Nc3 Nc6 3. Bf4 Bf5 4. Qd2 Qd7 5. O-O-O O-O-O
LineLong ==
    << Mv(1, 3, 3, 3), Mv(6, 3, 4, 3), Mv(0, 1, 2, 2), Mv(7, 1, 5, 2),
       Mv(0, 2, 3, 5), Mv(7, 2, 4, 5), Mv(0, 3, 1, 3), Mv(7, 3, 6, 3),
       Castle(0, 2), Castle(7, 2) >>

\* 1. e4 a6 2. e5 d5 3. exd6 e.p.
LineEnPassant ==
    << Mv(1, 4, 3, 4), Mv(6, 0, 5, 0), Mv(3, 4, 4, 4), Mv(6, 3, 4, 3),
       Move(SquareOf(4, 4), SquareOf(5, 3), "MT_EN_PASSANT", KNIGHT) >>

\* 1. a4 b5 2. axb5 a6 3. bxa6 Bb7 4. axb7 Nc6 5. bxa8=Q
LinePromotion ==
    << Mv(1, 0, 3, 0), Mv(6, 1, 4, 1), Mv(3, 0, 4, 1), Mv(6, 0, 5, 0),
       Mv(4, 1, 5, 0), Mv(7, 2, 6, 1), Mv(5, 0, 6, 1), Mv(7, 1, 5, 2),
       Move(SquareOf(6, 1), SquareOf(7, 0), "MT_PROMOTION", QUEEN) >>

Lines == {LineShort, LineLong, LineEnPassant, LinePromotion}

\* the first n moves of l are the first n moves of one of the lines
followsLine(l, n) ==
    \E L \in Lines : n <= Len(L) /\ \A i \in 1..n : l[i] = L[i]

\* the moves of l are moves of a line but for at most the last MaxFree
searched(l) ==
    \E n \in 0..Len(l) : Len(l) - n <= MaxFree /\ followsLine(l, n)

InitPosSpec == InitIdle /\ InitTT /\ age = 0 /\ InitPosition /\ InitRest

\* Position::doMove(m), as Searcher::doMove calls it for a move m of the
\* move list generated for the position; a position whose mover left the
\* king attacked is undone at once (search.cpp lines 207-212) and no move
\* is made from it
DoMove(m) ==
    /\ searched(Append(line, m))
    /\ moverKingSafe(pos)
    /\ pos' = doMove(pos, m)
    /\ line' = Append(line, m)
    /\ snaps' = Append(snaps, pos)
    /\ lastUndo' = NoUndo
    /\ UNCHANGED <<undos, searchVars, ttVars, ttAux, restVars>>

\* Position::undoMove(m) for the last move done
UndoMove ==
    /\ line # <<>>
    /\ undos < MaxUndos
    /\ undos' = undos + 1
    /\ pos' = undoMove(pos, line[Len(line)])
    /\ line' = SubSeq(line, 1, Len(line) - 1)
    /\ snaps' = SubSeq(snaps, 1, Len(snaps) - 1)
    /\ lastUndo' = [move |-> line[Len(line)],
                    direct |-> lastUndo = NoUndo,
                    captured |-> pos.info.justCaptured,
                    before |-> snaps[Len(snaps)]]
    /\ UNCHANGED <<searchVars, ttVars, ttAux, restVars>>

NextPos ==
    \/ \E m \in generateMoves(pos) : DoMove(m)
    \/ UndoMove

SpecPos == InitPosSpec /\ [][NextPos]_vars

(***************************************************************************)
(* Properties of the position (checked under SpecPos).                     *)
(***************************************************************************)
\* the members that a move changes through putPiece, movePiece and
\* removePiece, but for the piece lists' order
sameBoard(p, q) ==
    /\ p.board = q.board
    /\ p.colorBB = q.colorBB
    /\ p.pieceTypeBB = q.pieceTypeBB
    /\ p.pieceCount = q.pieceCount
    /\ p.info = q.info
    /\ p.psqScore = q.psqScore
    /\ p.turn = q.turn
    /\ p.gamePly = q.gamePly

\* pieceSq[c][pt] up to pieceCount[c][pt]
liveList(p, c, pt) ==
    [i \in 0..(p.pieceCount[c][pt] - 1) |-> p.pieceSq[c][pt][i]]

\* the piece lists hold the same squares in the same slots, and index is the
\* same on every occupied square
sameLists(p, q) ==
    /\ \A c \in Sides, pt \in PieceTypes : liveList(p, c, pt) = liveList(q, c, pt)
    /\ \A sq \in occupiedBB(p) : p.index[sq] = q.index[sq]

\* the piece lists hold the same squares, each once, and index of an
\* occupied square is its slot in the list of its piece
sameListsUpToOrder(p, q) ==
    /\ \A c \in Sides, pt \in PieceTypes :
          /\ listSquares(p, c, pt) = listSquares(q, c, pt)
          /\ listSquares(p, c, pt) = pieceBB(p, c, pt)
    /\ \A sq \in occupiedBB(p) :
          /\ p.index[sq] \in 0..(p.pieceCount[getPieceSide(p.board[sq])]
                                             [getPieceType(p.board[sq])] - 1)
          /\ p.pieceSq[getPieceSide(p.board[sq])][getPieceType(p.board[sq])]
                      [p.index[sq]] = sq

\* the move undone last took a piece or promoted a pawn
undidCaptureOrPromotion ==
    \/ lastUndo.captured # PT_NULL
    \/ lastUndo.move.type = "MT_PROMOTION"

computeKey(p) ==
    {ZobristPSQ(getPieceSide(p.board[sq]), getPieceType(p.board[sq]), sq) :
        sq \in {x \in Squares : p.board[x] # PIECE_NULL}}
    \cup {ZobristCR(cr) : cr \in p.info.castlingRight}
    \cup (IF p.info.epSquare # SQ_NONE
            THEN {ZobristEP(getFile(p.info.epSquare))}
            ELSE {})
    \cup (IF p.turn = BLACK THEN {ZobristBlackSide} ELSE {})

\* C10: after any sequence of doMove and undoMove calls from reset(),
\* info.keyZobrist is the key computed from scratch.
C10_KeyIsRecomputed ==
    pos.info.keyZobrist = computeKey(pos)

\* C10 witness: moves were done and one undone, White has castled, Black is
\* to move, and the key is the key computed from scratch
C10_Witness ==
    /\ lastUndo # NoUndo
    /\ lastUndo.move.type = "MT_CASTLING"
    /\ pos.turn = BLACK
    /\ pos.info.castlingRight = {CR_BLACK_OO, CR_BLACK_OOO}
    /\ pos.info.keyZobrist = computeKey(pos)

\* the board and the bitboards agree: square s is in colorBB[c] and in
\* pieceTypeBB[t] iff board[s] is the piece (c, t)
boardMatchesBitboards(p) ==
    \A s \in Squares, c \in Sides, t \in PieceTypes :
        (s \in p.colorBB[c] \cap p.pieceTypeBB[t]) <=> (p.board[s] = makePiece(c, t))

\* pieceTypeBB[PT_ALL] is the union of the colour bitboards, which are
\* disjoint
occupancyIsUnion(p) ==
    /\ p.pieceTypeBB[PT_ALL] = p.colorBB[WHITE] \cup p.colorBB[BLACK]
    /\ p.colorBB[WHITE] \cap p.colorBB[BLACK] = {}

\* pieceSq[c][t][0 .. pieceCount[c][t] - 1] lists the squares of the piece
\* (c, t), each once, and index[s] is the slot of s in the list of its piece
listsMatchBoard(p) ==
    /\ \A c \in Sides, t \in PieceTypes :
          /\ listSquares(p, c, t) = {s \in Squares : p.board[s] = makePiece(c, t)}
          /\ Cardinality(listSquares(p, c, t)) = p.pieceCount[c][t]
    /\ \A s \in Squares :
          p.board[s] # PIECE_NULL =>
              p.pieceSq[getPieceSide(p.board[s])][getPieceType(p.board[s])]
                       [p.index[s]] = s

\* C11: after every doMove and every undoMove the board, the bitboards and
\* the piece lists agree: s is in colorBB[c] & pieceTypeBB[t] iff board[s]
\* is piece(c, t); pieceTypeBB[PT_ALL] is the union of the two disjoint
\* colour bitboards; pieceSq[c][t] up to pieceCount[c][t] lists the squares
\* of piece(c, t) and index[s] is the slot of s in that list.
C11_BoardBitboardsListsAgree ==
    (line # <<>> \/ lastUndo # NoUndo) =>
        /\ boardMatchesBitboards(pos)
        /\ occupancyIsUnion(pos)
        /\ listsMatchBoard(pos)

\* C11 witness: an en-passant capture was done, the pawn taken is off the
\* board, the bitboards and its list, and the three agree
C11_Witness ==
    /\ line # <<>>
    /\ line[Len(line)].type = "MT_EN_PASSANT"
    /\ pos.pieceCount[BLACK][PAWN] = 7
    /\ boardMatchesBitboards(pos)
    /\ occupancyIsUnion(pos)
    /\ listsMatchBoard(pos)

\* the king of side stands on its home square and the rook of castling side
\* cs on its corner
atHome(p, side, cs) ==
    /\ p.board[relSquare(SquareOf(0, 4), side)] = makePiece(side, KING)
    /\ p.board[relSquare(SquareOf(0, IF cs = OO THEN 7 ELSE 0), side)]
           = makePiece(side, ROOK)

\* C40: in every position reached from reset() by doMove and undoMove, a
\* castling right that is set has its king on the e-file home square and its
\* rook on the home corner square.
C40_CastlingRightHasKingAndRook ==
    \A side \in Sides, cs \in {OO, OOO} :
        makeCastling(side, cs) \in pos.info.castlingRight
            => atHome(pos, side, cs)

\* C40 witness: the black rook was taken on a8 by the last move, Black's
\* long right went with it and the short right, whose rook is at home, stays
C40_Witness ==
    /\ line # <<>>
    /\ pos.info.justCaptured = ROOK
    /\ line[Len(line)].to = SquareOf(7, 0)
    /\ CR_BLACK_OOO \notin pos.info.castlingRight
    /\ CR_BLACK_OO \in pos.info.castlingRight
    /\ atHome(pos, BLACK, OO)
    /\ ~atHome(pos, BLACK, OOO)

(***************************************************************************)
(* The move manager's test of the table's move: games are played along     *)
(* the lines below, and in any position reached MoveManager::next tests    *)
(* ttMove, a move that the generator emitted in some position of the       *)
(* lines and that a probe of a colliding key handed over.                  *)
(***************************************************************************)
\* 1. d4 d5 2. Bf4 Bf5 3. Be5 Be4
LineBishops ==
    << Mv(1, 3, 3, 3), Mv(6, 3, 4, 3), Mv(0, 2, 3, 5), Mv(7, 2, 4, 5),
       Mv(3, 5, 4, 4), Mv(4, 5, 3, 4) >>

TTLines == Lines \cup {LineBishops}

\* the position after the first n moves of the line l
RECURSIVE positionAfter(_, _)
positionAfter(l, n) ==
    IF n = 0 THEN reset ELSE doMove(positionAfter(l, n - 1), l[n])

\* the moves that generatePseudolegalMoves emits in the positions of the lines
EmittedMoves ==
    UNION {UNION {generateMoves(positionAfter(l, n)) : n \in 0..Len(l)} :
              l \in TTLines}

InitPLSpec ==
    /\ InitIdle /\ InitTT /\ age = 0 /\ InitPosition
    /\ ttMove \in EmittedMoves
    /\ ttTried = NoTry
    /\ InitPerft
    /\ mlSource = "engine" /\ InitMoveList
    /\ InitRoot
    /\ InitAspiration
    /\ InitUCI
    /\ InitPvs
    /\ InitLate
    /\ InitEngine("DC_RULE_50")

\* a move of the game: Position::doMove(m) for a move of the generator
PlayMove(m) ==
    /\ \E l \in TTLines :
          /\ Len(line) < Len(l)
          /\ \A i \in 1..Len(line) : line[i] = l[i]
          /\ m = l[Len(line) + 1]
    /\ pos' = doMove(pos, m)
    /\ line' = Append(line, m)
    /\ ttTried' = NoTry
    /\ UNCHANGED <<snaps, lastUndo, undos, ttMove, searchVars, ttVars, ttAux,
                   afterMM>>

\* MoveManager::next in state TT_MOVE, move_manager.cpp lines 29-31
TTMovePhase ==
    /\ ttTried = NoTry
    /\ ttTried' = [move |-> ttMove, ok |-> isPseudoLegal(pos, ttMove)]
    /\ UNCHANGED <<ttMove, posVars, searchVars, ttVars, ttAux, afterMM>>

NextPL ==
    \/ \E m \in generateMoves(pos) : PlayMove(m)
    \/ TTMovePhase

SpecPL == InitPLSpec /\ [][NextPL]_vars

\* C12: isPseudoLegal(m) is true for every move m that the generator emits
\* in the position, and false for every move that the generator emitted in
\* another position and does not emit in this one.
C12_PseudoLegalIffEmitted ==
    ttTried # NoTry => (ttTried.ok <=> ttTried.move \in generateMoves(pos))

\* the first half of C12 alone: a move emitted in the position is accepted
C12_EmittedAccepted ==
    (ttTried # NoTry /\ ttTried.move \in generateMoves(pos)) => ttTried.ok

(***************************************************************************)
(* Engine::perft: games are played along the lines, and perft is called in *)
(* a position of the game.                                                 *)
(***************************************************************************)
InitPerftSpec ==
    /\ InitIdle /\ InitTT /\ age = 0 /\ InitPosition
    /\ InitMoveManager
    /\ InitPerft
    /\ mlSource = "engine" /\ InitMoveList
    /\ InitRoot
    /\ InitAspiration
    /\ InitUCI
    /\ InitPvs
    /\ InitLate
    /\ InitEngine("DC_RULE_50")

\* perft(depth) called from outside, on the position of the game
Perft(depth) ==
    /\ perftCalls < MaxPerftCalls
    /\ Len(line) + depth <= MaxPerftDepth
    /\ perftCalls' = perftCalls + 1
    /\ \E r \in {perft(pos, depth)} :
          /\ pos' = r.pos
          /\ perftRet' = [depth |-> depth, at |-> Len(line), nodes |-> r.nodes,
                          after |-> r.pos]
    /\ UNCHANGED <<line, snaps, lastUndo, undos, mmVars, afterPerft,
                   searchVars, ttVars, ttAux>>

NextPerft ==
    \/ \E m \in generateMoves(pos) : PlayMove(m)
    \/ \E depth \in 0..MaxPerftDepth : Perft(depth)

SpecPerft == InitPerftSpec /\ [][NextPerft]_vars

\* what the test expects of perft(0) .. perft(5) on the initial position
\* (EngineTest/engineTest.cpp lines 19-24)
PerftExpected == <<1, 20, 400, 8902, 197281, 4865609>>

InitMLSpec ==
    /\ InitIdle /\ InitTT /\ age = 0 /\ InitPosition
    /\ InitMoveManager
    /\ InitPerft
    /\ mlSource \in {"engine", "root"}
    /\ InitMoveList
    /\ InitRoot
    /\ InitAspiration
    /\ InitUCI
    /\ InitPvs
    /\ InitLate
    /\ InitEngine("DC_RULE_50")

\* MoveList::add(move, score), engine/movelist.cpp lines 28-33, for the next
\* move of the generator, before the first getNextBest call
MLAdd(score) ==
    /\ Len(mlMoves) < MaxMoves
    /\ mlGot = NoGet
    /\ mlMoves' = Append(mlMoves, [move |-> generateMoveList(pos)[Len(mlMoves) + 1],
                                   score |-> score])
    /\ UNCHANGED <<mlSource, mlIdx, mlGot, mlOut, posVars, mmVars, perftVars,
                   afterML, searchVars, ttVars, ttAux>>

\* MoveList::getNextBest()
MLGetNextBest ==
    /\ Len(mlOut) <= Len(mlMoves)
    /\ \E r \in {getNextBest(mlSource, mlMoves, mlIdx)} :
          /\ mlMoves' = r.moves
          /\ mlIdx' = r.moveIdx
          /\ mlGot' = [move |-> r.ret, idx |-> mlIdx,
                       rest |-> {mlMoves[i] : i \in (mlIdx + 1)..Len(mlMoves)}]
          /\ mlOut' = Append(mlOut, r.ret)
    /\ UNCHANGED <<mlSource, posVars, mmVars, perftVars, afterML, searchVars,
                   ttVars, ttAux>>

NextML ==
    \/ \E score \in 0..MaxMoveScore : MLAdd(score)
    \/ MLGetNextBest

SpecML == InitMLSpec /\ [][NextML]_vars

\* the score that the move m was added with
scoreOf(m) == (CHOOSE n \in {mlMoves[i] : i \in 1..Len(mlMoves)} : n.move = m).score

\* what C14 says of the last getNextBest call and of the calls so far
nextBestIsBest ==
    /\ mlGot # NoGet =>
          IF mlGot.rest # {}
            THEN /\ \E n \in mlGot.rest :
                       /\ n.move = mlGot.move
                       /\ \A o \in mlGot.rest : o.score <= n.score
                 /\ mlIdx = mlGot.idx + 1
            ELSE /\ mlGot.move = MOVE_NONE
                 /\ mlIdx = mlGot.idx
    /\ Len(mlOut) = Len(mlMoves) =>
          /\ {mlOut[i] : i \in 1..Len(mlOut)} = {mlMoves[i].move : i \in 1..Len(mlMoves)}
          /\ \A i, j \in 1..Len(mlOut) :
                i < j => scoreOf(mlOut[i]) >= scoreOf(mlOut[j])

\* C14: each getNextBest call made while unreturned entries remain returns
\* a move of maximal score among the entries not yet returned and advances
\* the cursor by one; with every entry returned it returns MOVE_NONE; over
\* count() calls each added move is returned once, in non-increasing score
\* order.
C14_NextBestIsBest == nextBestIsBest

\* C14 for the list of src/engine/movelist.cpp alone
C14_NextBestIsBestEngine == mlSource = "engine" => nextBestIsBest

(***************************************************************************)
(* The root move loop of Searcher::idSearch, run by every search thread on *)
(* the initial position.  The search below a root move and the scores are  *)
(* left out: every pass hands out the same root moves in the same order,   *)
(* no pass is repeated for the aspiration window, and the search is not    *)
(* stopped.                                                                *)
(***************************************************************************)
\* the root moves that MoveManager<true>::next hands out before the
\* deferred ones
rootMoves == SubSeq(generateMoveList(reset), 1, MaxRootMoves)

InitRootSpec ==
    /\ InitIdle /\ InitTT /\ age = 0 /\ InitPosition
    /\ InitMoveManager /\ InitPerft
    /\ mlSource = "engine" /\ InitMoveList
    /\ InitRoot
    /\ InitAspiration
    /\ InitUCI
    /\ InitPvs
    /\ InitLate
    /\ InitEngine("DC_RULE_50")

rootFrame ==
    <<posVars, mmVars, perftVars, mlVars, afterRoot, searchVars, ttVars, ttAux>>

\* Searcher::threadsSearching, search.cpp lines 189-196
threadsSearching(depth, move) ==
    Cardinality({t \in Threads : /\ rootSearchStates[t].depth = depth
                                 /\ rootSearchStates[t].move = move})

\* idSearch, search.cpp lines 336-349: the next iteration begins
idSearch_iteration(t) ==
    /\ rootLoop[t].pc \in {"idle", "iterated"}
    /\ rootLoop[t].curDepth < MaxDepth
    /\ rootSearchStates' = [rootSearchStates EXCEPT
           ![t] = [depth |-> rootLoop[t].curDepth + 1, move |-> MOVE_NONE]]
    /\ rootLoop' = [rootLoop EXCEPT
           ![t] = [pc |-> "next", curDepth |-> rootLoop[t].curDepth + 1,
                   move |-> MOVE_NONE, firstMove |-> TRUE, handed |-> 0,
                   deferredList |-> <<>>, deferredIdx |-> 0,
                   lastMoveDeferred |-> FALSE]]
    /\ UNCHANGED rootFrame

\* the move and the state of the move manager after moveManager.next(),
\* move_manager.cpp lines 76-95
next(l) ==
    IF l.handed < Len(rootMoves)
      THEN [l EXCEPT !.move = rootMoves[l.handed + 1], !.handed = @ + 1]
    ELSE IF l.deferredIdx < Len(l.deferredList)
      THEN [l EXCEPT !.move = l.deferredList[l.deferredIdx + 1],
                     !.deferredIdx = @ + 1, !.lastMoveDeferred = TRUE]
    ELSE [l EXCEPT !.move = MOVE_NONE, !.lastMoveDeferred = TRUE]

\* idSearch, search.cpp lines 352-360: the loop's test and the test for
\* deferring the move, which reads the slots
idSearch_next(t) ==
    /\ rootLoop[t].pc = "next"
    /\ LET l == next(rootLoop[t])
       IN  rootLoop' = [rootLoop EXCEPT ![t] =
               IF l.move = MOVE_NONE
                 THEN [l EXCEPT !.pc = "iterated"]
               ELSE IF /\ ~l.firstMove
                       /\ ~l.lastMoveDeferred
                       /\ threadsSearching(l.curDepth, l.move) > 0
                 THEN [l EXCEPT !.deferredList = Append(@, l.move)]
               ELSE [l EXCEPT !.pc = "enter"]]
    /\ UNCHANGED <<rootSearchStates, rootFrame>>

\* idSearch, search.cpp line 362: searchState.move = move
idSearch_enter(t) ==
    /\ rootLoop[t].pc = "enter"
    /\ rootSearchStates' = [rootSearchStates EXCEPT ![t].move = rootLoop[t].move]
    /\ rootLoop' = [rootLoop EXCEPT ![t].pc = "searching"]
    /\ UNCHANGED rootFrame

\* idSearch, search.cpp lines 363-375: the move is searched and undone,
\* searchState.move = MOVE_NONE, firstMove = false
idSearch_leave(t) ==
    /\ rootLoop[t].pc = "searching"
    /\ rootSearchStates' = [rootSearchStates EXCEPT ![t].move = MOVE_NONE]
    /\ rootLoop' = [rootLoop EXCEPT ![t].pc = "next", ![t].firstMove = FALSE]
    /\ UNCHANGED rootFrame

NextRoot ==
    \E t \in Threads :
        \/ idSearch_iteration(t)
        \/ idSearch_next(t)
        \/ idSearch_enter(t)
        \/ idSearch_leave(t)

SpecRoot == InitRootSpec /\ [][NextRoot]_vars

\* the move that thread t is searching is the first of its pass or one it
\* deferred earlier
firstOrDeferred(t) == rootLoop[t].firstMove \/ rootLoop[t].lastMoveDeferred

\* C15: two threads never hold the same (depth, move) pair in their
\* root-search slots at the same time, unless for one of them the move is
\* the first of its pass or a move it deferred earlier: a thread defers a
\* move that another thread's slot shows at the same depth instead of
\* searching it.
C15_NoSharedRootMove ==
    \A t1, t2 \in Threads :
        (/\ t1 # t2
         /\ rootSearchStates[t1].move # MOVE_NONE
         /\ rootSearchStates[t1] = rootSearchStates[t2])
            => (firstOrDeferred(t1) \/ firstOrDeferred(t2))

(***************************************************************************)
(* Engine (src/engine/engine.cpp): the game played through DoMove,         *)
(* DoMoveSAN, UndoMove and reset.  The position of the engine is pos.  The *)
(* SAN text of a history record, the killers and the history tables are    *)
(* left out.                                                               *)
(***************************************************************************)
\* the element of a set of one element: the({e(v) : v \in {d}}) is e(v)
\* with d, computed once, for v
the(S) == CHOOSE x \in S : TRUE

\* Position::generateLegalMoves, engine/position.h lines 241-253, with
\* addMoveIfSuitable<TURN, true>, lines 289-311: every move of the list is
\* done, tested and undone on the position itself, one after another; the
\* list and the position afterwards. tried(moveList, q, first, last) is what
\* the moves number first..last of the list leave of q and which of them
\* they add: one move as addMoveIfSuitable does it, more moves as the earlier
\* half of them followed by the later half
RECURSIVE tried(_, _, _, _)
tried(moveList, q, first, last) ==
    IF first > last THEN [moves |-> <<>>, pos |-> q]
    ELSE IF first = last
      THEN the({[moves |-> IF moverKingSafe(done)
                             THEN <<moveList[first]>> ELSE <<>>,
                 pos |-> undoMove(done, moveList[first])]
                : done \in {doMove(q, moveList[first])}})
    ELSE the({the({[moves |-> earlier.moves \o later.moves,
                    pos |-> later.pos]
                   : later \in {tried(moveList, earlier.pos,
                                      (first + last) \div 2 + 1, last)}})
              : earlier \in {tried(moveList, q, first, (first + last) \div 2)}})

generateLegalMoves(p) ==
    the({tried(moveList, p, 1, Len(moveList))
         : moveList \in {generateMoveList(p)}})

(***************************************************************************)
(* One MoveManager across its next() calls, on the positions of the lines. *)
(* A manager of pvs (ROOT = false) is given the move of a table entry,     *)
(* which may be a move stored for another position (an entry of an equal   *)
(* key, or one overwritten between probe and the read of its move); the    *)
(* manager of idSearch (ROOT = true) is given curBestMove, MOVE_NONE or a  *)
(* legal move of the position.                                             *)
(***************************************************************************)
\* the lines played before a manager is constructed
ManagerLines == {LineEnPassant, LineBishops}

\* the moves handed to a manager as table moves: the moves of the lines
ManagerTTMoves ==
    {MOVE_NONE} \cup UNION {{l[i] : i \in 1..Len(l)} : l \in ManagerLines}

\* the defer calls made on a manager
MaxDeferred == 1

\* Searcher::scoreMoves, search.cpp lines 246-271, in a searcher whose
\* history, countermoves and killers are zero: a capture (the target square
\* is occupied) scores by victim and attacker
MS_CAPTURE_BONUS_VICTIM == <<100000, 285000, 300000, 500000, 1000000, 0>>

MS_CAPTURE_BONUS_ATTACKER == <<1000000, 800000, 750000, 400000, 200000>>

scoreMoves(p, moves) ==
    [i \in 1..Len(moves) |->
        [move |-> moves[i],
         score |-> IF p.board[moves[i].to] # PIECE_NULL
                     THEN MS_CAPTURE_BONUS_VICTIM[
                              getPieceType(p.board[moves[i].to])]
                          + IF getPieceType(p.board[moves[i].from]) = KING
                              THEN 0
                              ELSE MS_CAPTURE_BONUS_ATTACKER[
                                       getPieceType(p.board[moves[i].from])]
                     ELSE 0]]

\* the manager after next() has returned m
yield(mm, m, deferred) ==
    [mm EXCEPT !.out = IF m = MOVE_NONE THEN @
                       ELSE Append(@, [move |-> m, deferred |-> deferred]),
               !.finished = m = MOVE_NONE,
               !.pending = m # MOVE_NONE]

\* next() in state DEFERRED, move_manager.cpp lines 91-94:
\* deferredList.getNext()
fromDeferred(mm) ==
    IF mm.deferredIdx < Len(mm.deferredList)
      THEN yield([mm EXCEPT !.state = "DEFERRED", !.deferredIdx = @ + 1],
                 mm.deferredList[mm.deferredIdx + 1], TRUE)
      ELSE yield([mm EXCEPT !.state = "DEFERRED"], MOVE_NONE, TRUE)

\* lines 81-94: g is what the getNextBest calls left
fromPicked(mm, g) ==
    IF mm.root /\ g.ret = MOVE_NONE
      THEN fromDeferred([mm EXCEPT !.moveList = g.moves,
                                   !.moveIdx = g.moveIdx])
      ELSE yield([mm EXCEPT !.state = "GENERATED", !.moveList = g.moves,
                            !.moveIdx = g.moveIdx], g.ret, FALSE)

\* lines 77-80: getNextBest, and once more if it returned ttMove
skipTT(mm, g) ==
    IF g.ret = mm.ttMove
      THEN fromPicked(mm, getNextBest("engine", g.moves, g.moveIdx))
      ELSE fromPicked(mm, g)

\* next() in state GENERATED
fromGenerated(mm) ==
    skipTT(mm, getNextBest("engine", mm.moveList, mm.moveIdx))

\* lines 69-76: the list is generated and scored (g is the list and the
\* position that the generator leaves)
fromGenmoves(mm, g) ==
    [mm |-> fromGenerated([mm EXCEPT !.moveList = scoreMoves(g.pos, g.moves),
                                     !.moveIdx = 0,
                                     !.generated = g.moves]),
     pos |-> g.pos]

genPhase(p, mm) ==
    IF mm.root
      THEN fromGenmoves(mm, generateLegalMoves(p))
      ELSE fromGenmoves(mm, [moves |-> generateMoveList(p), pos |-> p])

\* lines 29-52: next() in state TT_MOVE; isLegal does and undoes the move on
\* the position itself (engine/position.h lines 232-239)
ttPhase(p, mm) ==
    IF isPseudoLegal(p, mm.ttMove)
      THEN IF mm.root
             THEN IF moverKingSafe(doMove(p, mm.ttMove))
                    THEN [mm |-> yield([mm EXCEPT !.state = "GENMOVES",
                                                  !.ttOk = TRUE],
                                       mm.ttMove, FALSE),
                          pos |-> undoMove(doMove(p, mm.ttMove), mm.ttMove)]
                    ELSE genPhase(undoMove(doMove(p, mm.ttMove), mm.ttMove),
                                  mm)
             ELSE [mm |-> yield([mm EXCEPT !.state = "GENMOVES",
                                           !.ttOk = TRUE],
                                mm.ttMove, FALSE),
                   pos |-> p]
      ELSE genPhase(p, mm)

\* MoveManager::next
nextCall(p, mm) ==
    IF mm.state = "TT_MOVE" THEN ttPhase(p, mm)
    ELSE IF mm.state = "GENMOVES" THEN genPhase(p, mm)
    ELSE IF mm.state = "GENERATED" THEN [mm |-> fromGenerated(mm), pos |-> p]
    ELSE [mm |-> fromDeferred(mm), pos |-> p]

mgrFrame ==
    <<line, snaps, lastUndo, undos, mmVars, perftVars, mlVars, rootVars,
      gameVars, aspVars, uciVars, pvsVars, raceVars, qsVars, killVars,
      plyVars, optVars, searchVars, ttVars, ttAux>>

\* MoveManager<ROOT>::MoveManager(searcher, ttMove), move_manager.cpp lines
\* 15-17
mm_construct(root, ttm) ==
    /\ moveManager = NoManager
    /\ root => \/ ttm = MOVE_NONE
               \/ /\ ttm \in generateMoves(pos)
                  /\ moverKingSafe(doMove(pos, ttm))
    /\ moveManager' =
         [state |-> "TT_MOVE", root |-> root, ttMove |-> ttm,
          moveList |-> <<>>, moveIdx |-> 0, deferredList |-> <<>>,
          deferredIdx |-> 0, generated |-> <<>>, out |-> <<>>,
          ttOk |-> FALSE, finished |-> FALSE, pending |-> FALSE]
    /\ UNCHANGED <<pos, mgrFrame>>

\* moveManager.next(), called until it returns MOVE_NONE
mm_next ==
    /\ moveManager # NoManager
    /\ ~moveManager.finished
    /\ \E r \in {nextCall(pos, moveManager)} :
         /\ moveManager' = [r.mm EXCEPT !.pending = @ /\ r.mm.root]
         /\ pos' = r.pos
    /\ UNCHANGED mgrFrame

\* moveManager.defer(move) as idSearch calls it (search.cpp lines 355-360):
\* for the move just returned, not the first one and not a deferred one
mm_defer ==
    /\ moveManager # NoManager
    /\ moveManager.root
    /\ moveManager.pending
    /\ Len(moveManager.out) >= 2
    /\ moveManager.state # "DEFERRED"
    /\ Len(moveManager.deferredList) < MaxDeferred
    /\ moveManager' =
         [moveManager EXCEPT
            !.deferredList = Append(@, moveManager.out[Len(moveManager.out)].move),
            !.pending = FALSE]
    /\ UNCHANGED <<pos, mgrFrame>>

\* a move of the game before the manager is constructed
mm_play ==
    /\ moveManager = NoManager
    /\ \E l \in ManagerLines :
          /\ Len(line) < Len(l)
          /\ \A i \in 1..Len(line) : line[i] = l[i]
          /\ pos' = doMove(pos, l[Len(line) + 1])
          /\ line' = Append(line, l[Len(line) + 1])
    /\ UNCHANGED <<snaps, lastUndo, undos, mmVars, perftVars, mlVars, rootVars,
                   gameVars, aspVars, uciVars, pvsVars, lateVars, searchVars,
                   ttVars, ttAux>>

NextMgr ==
    \/ mm_play
    \/ \E root \in BOOLEAN, ttm \in ManagerTTMoves : mm_construct(root, ttm)
    \/ mm_next
    \/ mm_defer

SpecMgr == InitRootSpec /\ [][NextMgr]_vars

\* the moves of a sequence of returned moves
movesOf(out) == [i \in 1..Len(out) |-> out[i].move]

\* the members of a sequence
rangeOf(sq) == {sq[i] : i \in 1..Len(sq)}

\* the moves next() returned from the table and from the generated list
outGenerated == SelectSeq(moveManager.out, LAMBDA o : ~o.deferred)

\* the moves next() returned from deferredList
outDeferred == SelectSeq(moveManager.out, LAMBDA o : o.deferred)

\* C33: when next() has returned MOVE_NONE, the moves it returned before
\* from the table and the generated list are the moves of the generated
\* list, each once; the table move came first if it was pseudo-legal (and
\* legal, at the root); the moves passed to defer() came once more, after
\* all others.
C33_NextYieldsGeneratedOnce ==
    (moveManager # NoManager /\ moveManager.finished) =>
        /\ Len(outGenerated) = Len(moveManager.generated)
        /\ rangeOf(movesOf(outGenerated)) = rangeOf(moveManager.generated)
        /\ moveManager.ttOk => moveManager.out[1].move = moveManager.ttMove
        /\ movesOf(outDeferred) = moveManager.deferredList
        /\ \A i, j \in 1..Len(moveManager.out) :
              (i < j /\ moveManager.out[i].deferred)
                  => moveManager.out[j].deferred

\* C33 for a manager given a move that the generator emits in the position,
\* or MOVE_NONE
C33_NextYieldsGeneratedOnceForOwnMove ==
    (/\ moveManager # NoManager
     /\ moveManager.finished
     /\ \/ moveManager.ttMove = MOVE_NONE
        \/ moveManager.ttMove \in rangeOf(moveManager.generated))
        => C33_NextYieldsGeneratedOnce

\* Position::generateLegalMovesEx, engine/position.h lines 271-286
generateLegalMovesEx(p) ==
    LET under(move) ==
            IF move.type = "MT_PROMOTION" /\ move.promotion = QUEEN
              THEN <<Move(move.from, move.to, "MT_PROMOTION", BISHOP),
                     Move(move.from, move.to, "MT_PROMOTION", ROOK)>>
              ELSE <<>>
    IN  the({[moves |-> gl.moves
                          \o concat([i \in 1..Len(gl.moves) |-> under(gl.moves[i])]),
              pos |-> gl.pos]
             : gl \in {generateLegalMoves(p)}})

\* Position::writePosition(ostr, true), position.cpp lines 539-586: what is
\* written for the piece placement (the numbers, 0 standing for the
\* delimiter after a rank; the letter of a piece is computed and not
\* written, and consecutiveEmpty is not set back at the end of a rank), the
\* side to move, the castling rights and the en-passant square
writePosition(p) ==
    LET sqAt(i) == SquareOf(7 - (i \div 8), i % 8)
        empty(i) == p.board[sqAt(i)] = PIECE_NULL
        \* consecutiveEmpty when square number i of the loops is reached
        consecutiveEmpty(i) ==
            Cardinality({j \in 0..(i - 1) : \A k \in j..(i - 1) : empty(k)})
        written(i) ==
            (IF ~empty(i) /\ consecutiveEmpty(i) > 0
               THEN <<consecutiveEmpty(i)>> ELSE <<>>)
            \o (IF i % 8 < 7 THEN <<>>
                ELSE IF empty(i) THEN <<consecutiveEmpty(i) + 1, 0>>
                ELSE <<0>>)
        ofRank(r) == concat([f \in 1..8 |-> written(8 * r + f - 1)])
        placement == concat([r \in 1..8 |-> ofRank(r - 1)])
    IN  [placement |-> placement,
         turn |-> IF p.turn = WHITE THEN "w" ELSE "b",
         castling |-> p.info.castlingRight,
         ep |-> IF p.info.epSquare = SQ_NONE THEN <<>>
                ELSE <<getFile(p.info.epSquare) + 97, getRank(p.info.epSquare)>>]

\* Engine::drawByMaterial, engine.cpp lines 82-96
drawByMaterial(p) ==
    LET color(sq) == (getRank(sq) + getFile(sq)) % 2
    IN  IF p.pieceCount[WHITE][PT_ALL] > 2 \/ p.pieceCount[BLACK][PT_ALL] > 2
          THEN FALSE
        ELSE \/ p.pieceCount[WHITE][PT_ALL] = 1 /\ p.pieceCount[BLACK][PT_ALL] = 1
             \/ \E side \in Sides :
                   /\ p.pieceCount[opposite(side)][PT_ALL] = 1
                   /\ \/ p.pieceCount[side][BISHOP] = 1
                      \/ p.pieceCount[side][KNIGHT] = 1
             \/ /\ p.pieceCount[WHITE][BISHOP] = 1
                /\ p.pieceCount[BLACK][BISHOP] = 1
                /\ color(p.pieceSq[WHITE][BISHOP][0])
                     = color(p.pieceSq[BLACK][BISHOP][0])

\* Engine::threefoldRepetitionDraw, engine.cpp lines 101-107
threefoldRepetitionDraw(p, repeats) ==
    \E positionFEN \in {writePosition(p)} :
        /\ positionFEN \in DOMAIN repeats
        /\ repeats[positionFEN] >= 3

\* Position::isInCheck, engine/position.h lines 174-177
isInCheck(p) == isAttacked(p, p.pieceSq[p.turn][KING][0], opposite(p.turn))

\* Engine::updateGameState, engine.cpp lines 112-126: gameState, drawCause
\* and the position after it
updateGameState(p, repeats, cause) ==
    the({[pos |-> gl.pos,
          gameState |->
              IF gl.moves = <<>>
                THEN (IF isInCheck(gl.pos)
                        THEN (IF gl.pos.turn = WHITE THEN "GS_BLACK_WIN"
                                                     ELSE "GS_WHITE_WIN")
                        ELSE "GS_DRAW")
              ELSE IF \/ gl.pos.info.rule50 >= 100
                      \/ drawByMaterial(gl.pos)
                      \/ threefoldRepetitionDraw(gl.pos, repeats)
                THEN "GS_DRAW"
              ELSE "GS_ACTIVE",
          drawCause |->
              IF gl.moves = <<>> THEN cause
              ELSE IF gl.pos.info.rule50 >= 100 THEN "DC_RULE_50"
              ELSE IF drawByMaterial(gl.pos) THEN "DC_MATERIAL"
              ELSE IF threefoldRepetitionDraw(gl.pos, repeats)
                THEN "DC_THREEFOLD_REPETITION"
              ELSE cause]
         : gl \in {generateLegalMoves(p)}})

\* Engine::moveFromSAN, engine.cpp lines 283-381, for the text of a piece
\* move without its square of origin (a letter and a square): the first
\* legal move of this piece type to this square, none when it throws
moveFromSAN(p, san) ==
    the({the({[found |-> match # {},
               move |-> IF match = {} THEN MOVE_NONE
                        ELSE ex.moves[CHOOSE i \in match : \A j \in match : i <= j],
               pos |-> ex.pos]
              : match \in {{i \in 1..Len(ex.moves) :
                              /\ san.to = ex.moves[i].to
                              /\ san.pieceType
                                   = getPieceType(p.board[ex.moves[i].from])
                              /\ ex.moves[i].type # "MT_PROMOTION"}}})
         : ex \in {generateLegalMovesEx(p)}})

\* the values of DrawCause
DrawCauses ==
    {"DC_RULE_50", "DC_MATERIAL", "DC_THREEFOLD_REPETITION", "DC_STALEMATE"}

\* Nf3 Nf6 Ng1 Ng8
Dance == <<Mv(0, 6, 2, 5), Mv(7, 6, 5, 5), Mv(2, 5, 0, 6), Mv(5, 5, 7, 6)>>

\* 1. e3 a5 2. Qh5 Ra6 3. Qxa5 h5 4. h4 Rah6 5. Qxc7 f6 6. Qxd7+ Kf7
\* 7. Qxb7 Qd3 8. Qxb8 Qh7 9. Qxc8 Kg6 10. Qe6, Black has no move
Stalemate ==
    << Mv(1, 4, 2, 4), Mv(6, 0, 4, 0), Mv(0, 3, 4, 7), Mv(7, 0, 5, 0),
       Mv(4, 7, 4, 0), Mv(6, 7, 4, 7), Mv(1, 7, 3, 7), Mv(5, 0, 5, 7),
       Mv(4, 0, 6, 2), Mv(6, 5, 5, 5), Mv(6, 2, 6, 3), Mv(7, 4, 6, 5),
       Mv(6, 3, 6, 1), Mv(7, 3, 2, 3), Mv(6, 1, 7, 1), Mv(2, 3, 6, 7),
       Mv(7, 1, 7, 2), Mv(6, 5, 5, 6), Mv(7, 2, 5, 4) >>

\* the game entered with DoMove(Move): the moves up to the stalemate
LineGame == Stalemate

\* the game entered with DoMoveSAN: Nf3 Nf6 Ng1 Ng8 Nf3 Nf6 Ng1 Ng8
LineSAN ==
    [i \in 1..8 |-> [pieceType |-> KNIGHT, to |-> (Dance \o Dance)[i].to]]

\* a move that is legal in no position of the games: e2-e5
NoLegalMove == Mv(1, 4, 4, 4)

\* a text that denotes no legal move in any position of the games: Ne5
NoLegalSAN == [pieceType |-> KNIGHT, to |-> SquareOf(4, 4)]

InitGameSpec ==
    /\ InitIdle /\ InitTT /\ age = 0 /\ InitPosition
    /\ InitMoveManager /\ InitPerft
    /\ mlSource = "engine" /\ InitMoveList
    /\ InitRoot
    /\ InitAspiration
    /\ InitUCI
    /\ InitPvs
    /\ InitLate
    /\ \E cause \in DrawCauses : InitEngine(cause)

gameFrame ==
    <<line, snaps, lastUndo, undos, mmVars, perftVars, mlVars, rootVars,
      aspVars, uciVars, pvsVars, lateVars, searchVars, ttVars, ttAux>>

\* the engine as a call finds it
engineNow ==
    [pos |-> pos, gameState |-> gameState, drawCause |-> drawCause,
     gameHistory |-> gameHistory, positionRepeats |-> positionRepeats]

\* the games go on as long as no call was refused and no move was taken back
playing == gameUndos = 0 /\ (IF gameCall = NoCall THEN TRUE ELSE gameCall.ret)

\* the record of a call
called(op, move, ret) ==
    [op |-> op, move |-> move, busy |-> engineInSearch, before |-> engineNow,
     ret |-> ret]

\* the end of a call that made move: updateGameState has run
moved(upd, move, repeats, via) ==
    /\ pos' = upd.pos
    /\ gameState' = upd.gameState
    /\ drawCause' = upd.drawCause
    /\ gameHistory' = Append(gameHistory, move)
    /\ positionRepeats' = repeats
    /\ gameVia' = via

\* a DoMove that applies no move and records every move it is given
Engine_DoMove_call_recordsOnly(move) ==
    /\ \E ex \in {generateLegalMovesEx(pos)} :
          /\ gameCall' = called("DoMove", move,
                               \E i \in 1..Len(ex.moves) : ex.moves[i] = move)
          /\ pos' = ex.pos
          /\ gameHistory' = Append(gameHistory, move)
          /\ UNCHANGED <<gameState, drawCause, positionRepeats, gameVia>>
    /\ UNCHANGED <<engineInSearch, gameUndos, gameFrame>>

\* Engine::DoMove(Move), engine.cpp lines 133-160
Engine_DoMove_call(move) ==
    /\ \E ex \in {generateLegalMovesEx(pos)} :
          IF \E i \in 1..Len(ex.moves) : ex.moves[i] = move
            THEN \E toSAN \in {generateLegalMovesEx(ex.pos)} :
                 \E done \in {doMove(toSAN.pos, move)} :
                 \E positionFEN \in {writePosition(done)} :
                 \E repeats \in
                        {IF positionFEN \in DOMAIN positionRepeats
                           THEN [positionRepeats EXCEPT ![positionFEN] = @ + 1]
                           ELSE (positionFEN :> 1) @@ positionRepeats} :
                 \E upd \in {updateGameState(done, repeats, drawCause)} :
                    /\ gameCall' = called("DoMove", move, TRUE)
                    /\ moved(upd, move, repeats, "Move")
            ELSE /\ gameCall' = called("DoMove", move, FALSE)
                 /\ pos' = ex.pos
                 /\ UNCHANGED <<gameState, drawCause, gameHistory,
                                positionRepeats, gameVia>>
    /\ UNCHANGED <<engineInSearch, gameUndos, gameFrame>>

Engine_DoMove(move) == playing /\ Engine_DoMove_call(move)

\* Engine::DoMoveSAN, engine.cpp lines 212-231
Engine_DoMoveSAN_call(moveSAN) ==
    /\ \E from \in {moveFromSAN(pos, moveSAN)} :
          IF from.found
            THEN \E done \in {doMove(from.pos, from.move)} :
                 \E upd \in {updateGameState(done, positionRepeats, drawCause)} :
                    /\ gameCall' = called("DoMoveSAN", from.move, TRUE)
                    /\ moved(upd, from.move, positionRepeats, "SAN")
            ELSE /\ gameCall' = called("DoMoveSAN", from.move, FALSE)
                 /\ pos' = from.pos
                 /\ UNCHANGED <<gameState, drawCause, gameHistory,
                                positionRepeats, gameVia>>
    /\ UNCHANGED <<engineInSearch, gameUndos, gameFrame>>

Engine_DoMoveSAN(moveSAN) == playing /\ Engine_DoMoveSAN_call(moveSAN)

\* Engine::UndoMove, engine.cpp lines 238-246
Engine_UndoMove ==
    /\ gameUndos < MaxGameUndos
    /\ gameCall' = called("UndoMove", MOVE_NONE, gameHistory # <<>>)
    /\ IF gameHistory = <<>>
         THEN UNCHANGED <<pos, gameState, drawCause, gameHistory>>
         ELSE \E undone \in {undoMove(pos, gameHistory[Len(gameHistory)])} :
              \E upd \in {updateGameState(undone, positionRepeats, drawCause)} :
                 /\ pos' = upd.pos
                 /\ gameState' = upd.gameState
                 /\ drawCause' = upd.drawCause
                 /\ gameHistory' = SubSeq(gameHistory, 1, Len(gameHistory) - 1)
    /\ gameUndos' = gameUndos + 1
    /\ UNCHANGED <<positionRepeats, engineInSearch, gameVia, gameFrame>>

\* Engine::reset, engine.cpp lines 59-77
Engine_reset ==
    /\ gameCall # NoCall
    /\ Len(gameHistory) <= MaxResetPlies
    /\ gameCall' = called("reset", MOVE_NONE, TRUE)
    /\ pos' = reset
    /\ gameState' = "GS_ACTIVE"
    /\ gameHistory' = <<>>
    /\ positionRepeats' = <<>>
    /\ gameVia' = "none"
    /\ gameUndos' = 0
    /\ UNCHANGED <<drawCause, engineInSearch, gameFrame>>

\* Engine::startSearch and Engine::endSearch as far as Engine::inSearch
\* goes: a search begins, a search ends
Engine_search ==
    /\ engineInSearch \/ Len(gameHistory) < MaxBusyPlies
    /\ engineInSearch' = ~engineInSearch
    /\ UNCHANGED <<pos, gameState, drawCause, gameHistory, positionRepeats,
                   gameCall, gameVia, gameUndos, gameFrame>>

\* the moves of line that come next in the game
nextOf(line_, via) ==
    {line_[i] : i \in ({Len(gameHistory) + 1} \cap DOMAIN line_)
                       \cap (IF gameVia \in {"none", via} THEN DOMAIN line_ ELSE {})
                       \cap (IF engineInSearch THEN 1..MaxBusyPlies
                                               ELSE DOMAIN line_)}

\* the input that is refused, for the calls of one way of entering moves
refusedOf(input, via) ==
    IF gameVia \in {"none", via} /\ Len(gameHistory) <= MaxRefusedPlies
      THEN {input} ELSE {}

NextGame ==
    \/ \E move \in refusedOf(NoLegalMove, "Move") \cup nextOf(LineGame, "Move") :
          Engine_DoMove(move)
    \/ \E moveSAN \in refusedOf(NoLegalSAN, "SAN") \cup nextOf(LineSAN, "SAN") :
          Engine_DoMoveSAN(moveSAN)
    \/ Engine_UndoMove
    \/ Engine_reset
    \/ Engine_search

SpecGame == InitGameSpec /\ [][NextGame]_vars

\* what tells one position of a game from another: piece placement, side
\* to move, castling rights and en-passant square
placed(p) ==
    [board |-> p.board, turn |-> p.turn, castling |-> p.info.castlingRight,
     ep |-> p.info.epSquare]

\* the positions of the game, the initial one first
RECURSIVE positionsOf(_, _, _)
positionsOf(p, moves, ps) ==
    LET here == Append(ps, placed(p))
    IN  IF moves = <<>> THEN here
        ELSE IF Len(here) > 0
          THEN positionsOf(doMove(p, Head(moves)), Tail(moves), here)
        ELSE <<>>

\* how often the current position has occurred in the game
occurrences ==
    LET ps == positionsOf(reset, gameHistory, <<>>)
    IN  Cardinality({i \in 1..Len(ps) : ps[i] = placed(pos)})

\* C16: after any sequence of successful user moves from the start
\* position, once the current position (piece placement, side to move,
\* castling rights, en-passant square) has occurred three times in the
\* game, the initial position counting, the game state is DRAW with cause
\* THREEFOLD_REPETITION; so it is after Nf3 Nf6 Ng1 Ng8 Nf3 Nf6 Ng1 Ng8.
C16_ThreefoldIsDraw ==
    (gameUndos = 0 /\ occurrences >= 3) =>
        /\ gameState = "GS_DRAW"
        /\ drawCause = "DC_THREEFOLD_REPETITION"

\* the last call made a move or took one back: updateGameState has run
updated ==
    IF gameCall = NoCall THEN FALSE
    ELSE gameCall.ret /\ gameCall.op \in {"DoMove", "DoMoveSAN", "UndoMove"}

\* the side to move has no legal move and is not in check
staleNow ==
    \E gl \in {generateLegalMoves(pos)} :
        gl.moves = <<>> /\ ~isInCheck(gl.pos)

\* C17: whenever updateGameState has run in a position in which the side
\* to move has no legal move and is not in check, the game state is DRAW
\* and the draw cause is STALEMATE, whatever cause was recorded earlier.
C17_StalemateCause ==
    (updated /\ staleNow) =>
        /\ gameState = "GS_DRAW"
        /\ drawCause = "DC_STALEMATE"

\* C17 as far as the game state goes: the stalemate is reported as a draw
C17_StalemateIsDraw ==
    (updated /\ staleNow) => gameState = "GS_DRAW"

\* move is a legal move of p
legalIn(p, move) ==
    \E gl \in {generateLegalMoves(p)} :
        \E i \in 1..Len(gl.moves) : gl.moves[i] = move

\* the last call was DoMove(Move)
doMoveCalled == IF gameCall = NoCall THEN FALSE ELSE gameCall.op = "DoMove"

busyCalled == IF gameCall = NoCall THEN FALSE ELSE gameCall.busy

\* C19: a DoMove, UndoMove or reset call made while a search is in
\* progress is rejected and leaves the position and the game history as
\* they were.
C19_BusyCallRejected ==
    busyCalled =>
        /\ ~gameCall.ret
        /\ sameBoard(pos, gameCall.before.pos)
        /\ gameHistory = gameCall.before.gameHistory

(***************************************************************************)
(* The repetition counts of Engine::positionRepeats along a game entered   *)
(* with DoMove and DoMoveSAN in any mixture, with moves taken back.        *)
(***************************************************************************)
\* the move of Nf3 Nf6 Ng1 Ng8 that comes next in the game
nextDance(line_) ==
    {line_[i] : i \in {Len(gameHistory) + 1} \cap 1..Len(Dance)}

NextRepeats ==
    \/ \E move \in nextDance(Dance) : Engine_DoMove_call(move)
    \/ \E moveSAN \in nextDance(LineSAN) : Engine_DoMoveSAN_call(moveSAN)
    \/ Engine_UndoMove

SpecRepeats == InitGameSpec /\ [][NextRepeats]_vars

\* what writePosition gives for the positions reached by the moves of a
\* game, in order
RECURSIVE reachedBy(_, _)
reachedBy(p, moves) ==
    IF moves = <<>> THEN <<>>
    ELSE <<writePosition(doMove(p, Head(moves)))>>
             \o reachedBy(doMove(p, Head(moves)), Tail(moves))

\* the count stored for a position
repeatsOf(fen) ==
    IF fen \in DOMAIN positionRepeats THEN positionRepeats[fen] ELSE 0

\* C39: after any sequence of successful DoMove, DoMoveSAN and UndoMove
\* calls the count stored for each position is the number of times the
\* position occurs among the positions reached by the moves still in
\* gameHistory.
C39_RepeatsCountGameLine ==
    \E reached \in {reachedBy(reset, gameHistory)} :
        \A fen \in DOMAIN positionRepeats \cup {reached[i] : i \in 1..Len(reached)} :
            repeatsOf(fen) = Cardinality({i \in 1..Len(reached) : reached[i] = fen})

\* C39 for the games entered with DoMove alone in which no move was taken
\* back
C39_RepeatsCountDoMoveLine ==
    (gameUndos = 0 /\ Cardinality(DOMAIN positionRepeats) = Len(gameHistory))
        => C39_RepeatsCountGameLine

(***************************************************************************)
(* The options of MultiSearcher and their setters, search.h lines 305-370. *)
(***************************************************************************)
\* the calls made to the setters in one run
MaxOptCalls == 2

\* MultiSearcher::getMaxThreadCount, search.h lines 295-298
getMaxThreadCount == HardwareThreads

\* the values asked for: below the range, its ends, inside it, above it
TimeLimits ==
    {TIME_LIMIT_MIN - 1, TIME_LIMIT_MIN, TIME_LIMIT_DEFAULT, TIME_LIMIT_MAX,
     TIME_LIMIT_MAX + 1}

ThreadCounts ==
    {THREAD_COUNT_MIN - 1, THREAD_COUNT_MIN, getMaxThreadCount,
     getMaxThreadCount + 1}

Depths ==
    {SEARCH_DEPTH_MIN - 1, SEARCH_DEPTH_MIN, SEARCH_DEPTH_DEFAULT,
     SEARCH_DEPTH_MAX, SEARCH_DEPTH_MAX + 1}

SearchOptionsAsked ==
    [timeLimit : TimeLimits, threadCount : ThreadCounts, depth : Depths]

optFrame ==
    <<searchVars, ttVars, ttAux, posVars, mmVars, perftVars, mlVars, rootVars,
      gameVars, aspVars, uciVars, pvsVars, raceVars, mgrVars, qsVars,
      killVars, plyVars>>

\* MultiSearcher::clampSetter, search.h lines 312-329: the value the option
\* gets and the exception that leaves the setter
clampSetter(value, minValue, maxValue) ==
    IF value < minValue THEN [option |-> minValue, threw |-> "Warning"]
    ELSE IF value > maxValue THEN [option |-> maxValue, threw |-> "Warning"]
    ELSE [option |-> value, threw |-> "none"]

\* MultiSearcher::setThreadCount, search.h lines 331-342: threads is resized
\* after clampSetter has returned
setThreadCount(ms, threadCount) ==
    IF ms.inSearch THEN [ms |-> ms, threw |-> "Error"]
    ELSE LET c == clampSetter(threadCount, THREAD_COUNT_MIN, getMaxThreadCount)
         IN  [ms |-> [ms EXCEPT !.options.threadCount = c.option,
                                !.threads = IF c.threw = "none"
                                              THEN threadCount ELSE @],
              threw |-> c.threw]

\* MultiSearcher::setTimeLimit, search.h lines 344-353
setTimeLimit(ms, timeLimit) ==
    IF ms.inSearch THEN [ms |-> ms, threw |-> "Error"]
    ELSE LET c == clampSetter(timeLimit, TIME_LIMIT_MIN, TIME_LIMIT_MAX)
         IN  [ms |-> [ms EXCEPT !.options.timeLimit = c.option],
              threw |-> c.threw]

\* MultiSearcher::setDepth, search.h lines 355-363
setDepth(ms, depth) ==
    IF ms.inSearch THEN [ms |-> ms, threw |-> "Error"]
    ELSE LET c == clampSetter(depth, SEARCH_DEPTH_MIN, SEARCH_DEPTH_MAX)
         IN  [ms |-> [ms EXCEPT !.options.depth = c.option],
              threw |-> c.threw]

\* MultiSearcher::setOptions, search.h lines 365-370: the exception of a
\* setter leaves setOptions
setOptions(ms, opt) ==
    LET tc == setThreadCount(ms, opt.threadCount)
        d  == setDepth(tc.ms, opt.depth)
        tl == setTimeLimit(d.ms, opt.timeLimit)
    IN  IF tc.threw # "none" THEN tc
        ELSE IF d.threw # "none" THEN d
        ELSE tl

\* MultiSearcher::setProcesser, search.h lines 305-310
setProcesser(ms, proc) ==
    IF ms.inSearch THEN [ms |-> ms, threw |-> "Error"]
    ELSE [ms |-> [ms EXCEPT !.processer = proc], threw |-> "none"]

\* a call of a setter with what it was asked and what came of it
opt_call(op, req, done) ==
    /\ optCall.no < MaxOptCalls
    /\ optCall' = [op |-> op, req |-> req, before |-> multiSearcher,
                   threw |-> done.threw, no |-> optCall.no + 1]
    /\ multiSearcher' = done.ms
    /\ UNCHANGED optFrame

MultiSearcher_setOptions(opt) ==
    opt_call("setOptions", opt, setOptions(multiSearcher, opt))

MultiSearcher_setThreadCount(threadCount) ==
    opt_call("setThreadCount", [threadCount |-> threadCount],
             setThreadCount(multiSearcher, threadCount))

MultiSearcher_setTimeLimit(timeLimit) ==
    opt_call("setTimeLimit", [timeLimit |-> timeLimit],
             setTimeLimit(multiSearcher, timeLimit))

MultiSearcher_setDepth(depth) ==
    opt_call("setDepth", [depth |-> depth], setDepth(multiSearcher, depth))

MultiSearcher_setProcesser(proc) ==
    opt_call("setProcesser", [processer |-> proc],
             setProcesser(multiSearcher, proc))

\* MultiSearcher::startSearch, search.cpp lines 63-93, as far as the options
\* and inSearch go: the thread count is set anew, the search is on
MultiSearcher_startSearch ==
    /\ ~multiSearcher.inSearch
    /\ \E tc \in {setThreadCount(multiSearcher,
                                 multiSearcher.options.threadCount)} :
          /\ tc.threw = "none"
          /\ multiSearcher' = [tc.ms EXCEPT !.inSearch = TRUE]
    /\ UNCHANGED <<optCall, optFrame>>

\* MultiSearcher::endSearch, search.cpp lines 100-124, as far as inSearch
\* goes
MultiSearcher_endSearch ==
    /\ multiSearcher.inSearch
    /\ multiSearcher' = [multiSearcher EXCEPT !.inSearch = FALSE]
    /\ UNCHANGED <<optCall, optFrame>>

NextOptions ==
    \/ \E opt \in SearchOptionsAsked : MultiSearcher_setOptions(opt)
    \/ \E threadCount \in ThreadCounts :
          MultiSearcher_setThreadCount(threadCount)
    \/ \E timeLimit \in TimeLimits : MultiSearcher_setTimeLimit(timeLimit)
    \/ \E depth \in Depths : MultiSearcher_setDepth(depth)
    \/ \E proc \in {"no-op", "user"} : MultiSearcher_setProcesser(proc)
    \/ MultiSearcher_startSearch
    \/ MultiSearcher_endSearch

SpecOptions == InitTTSpec /\ [][NextOptions]_vars

\* value brought into the range from lo to hi
clamped(value, lo, hi) ==
    IF value < lo THEN lo ELSE IF value > hi THEN hi ELSE value

\* the last call was setOptions, made outside a search
setOptionsCalled ==
    IF optCall.op = "setOptions" THEN ~optCall.before.inSearch ELSE FALSE

\* C20: after setOptions(opt) called outside a search, each of timeLimit,
\* threadCount and depth is the value asked for brought into its range
\* ([100, 1000000] ms, [1, maximum thread count], [1, 60]), for every
\* combination of values inside and outside the ranges.
C20_SetOptionsClampsEach ==
    setOptionsCalled =>
        /\ multiSearcher.options.timeLimit
             = clamped(optCall.req.timeLimit, TIME_LIMIT_MIN, TIME_LIMIT_MAX)
        /\ multiSearcher.options.threadCount
             = clamped(optCall.req.threadCount, THREAD_COUNT_MIN,
                       getMaxThreadCount)
        /\ multiSearcher.options.depth
             = clamped(optCall.req.depth, SEARCH_DEPTH_MIN, SEARCH_DEPTH_MAX)

\* C20 for the values inside the ranges: each option is the value asked for
C20_SetOptionsInRange ==
    (setOptionsCalled /\ optCall.threw = "none") =>
        multiSearcher.options = optCall.req

\* a setter called during a search throws and leaves the searcher as it was
BusySetterRejected ==
    (IF optCall.op = "none" THEN FALSE ELSE optCall.before.inSearch) =>
        /\ optCall.threw = "Error"
        /\ multiSearcher.options = optCall.before.options
        /\ multiSearcher.processer = optCall.before.processer

====
